---- MODULE Spec2Model ----
(***************************************************************************)
(* The XDM indexer of chain-pulse: the per-chain pipeline index_xdm        *)
(* (indexer/src/xdm.rs), the checkpoint table and the transfer table       *)
(* (indexer/src/storage.rs).                                               *)
(***************************************************************************)
EXTENDS Integers, Sequences, FiniteSets, TLC

VARIABLES
    live,                        \* chains whose block stream delivers batches
    process_blocks_in_parallel,  \* Cli.process_blocks_in_parallel
    base,                        \* height of the chains when the service starts
    last_processed,              \* indexer.metadata: process key -> block number
    xdm_transfers,               \* indexer.xdm_transfers: key -> row
    pc,                          \* position of each chain's index_xdm
    blocks_ext,                  \* the batch received by stream.recv()
    last_processed_block_number, \* local of index_xdm
    from,                        \* local of index_xdm
    to,                          \* local of index_xdm
    next_block,                  \* next number the (from..=to) iterator yields
    s,                           \* the buffered stream: admitted block tasks, in order
    set_call,                    \* argument of the set_last_processed_block call of the last step
    yielded,                     \* block s.try_next() yielded in the last step
    completed,                   \* blocks of the current range whose task returned Ok
    drained,                     \* blocks of the current range yielded by s.try_next()
    writes,                      \* <<block, event index>> upserts committed in the current range
    err_block,                   \* block whose task error index_xdm returned, if any
    indexed,                     \* blocks whose task returned Ok at least once, ever
    retry_of,                    \* block whose task error ended the run before the last restart
    extract_in,                  \* arguments of a call of extract_xdm_events_for_block
    extract_out,                 \* what the call returned
    start_chains,                \* the chains main calls start_tasks with, in order
    main_pc,                     \* position of main
    main_result,                 \* what main returned
    join_set,                    \* the tasks spawned on the join set: task -> state
    token_decimals,              \* network_details.token_decimals
    response                     \* what the server answered to a request for transfers

vars == <<live, process_blocks_in_parallel, base, last_processed, xdm_transfers,
          pc, blocks_ext, last_processed_block_number, from, to, next_block, s,
          set_call, yielded, completed, drained, writes, err_block, indexed, retry_of,
          extract_in, extract_out, start_chains, main_pc, main_result, join_set,
          token_decimals, response>>

----------------------------------------------------------------------------
(* Bounds of the model *)

\* number of block heights above base that the streams announce
Span == 3
\* largest number of blocks in one announced batch
MaxBatch == 2
\* largest value of process_blocks_in_parallel
MaxP == 2

\* longest range (in blocks) the model follows index_xdm through; a batch that
\* resolves to a longer range is not taken up
MaxRange == 3
\* largest number of populated field groups in the transfer table when
\* store_events is called with arbitrary events
MaxGroups == 3
\* largest number of entries in the events of a block given to
\* extract_xdm_events_for_block on its own
MaxRecords == 2
\* largest number of tasks of the join set that exit before main returns
MaxExits == 2
\* the block numbers written to the checkpoint table on its own are 0..MaxBlockNumber
MaxBlockNumber == 2
\* the short amounts of the transfers read through the API have up to MaxDigits digits
MaxDigits == 2

----------------------------------------------------------------------------
(* Program constants and types *)

CHECKPOINT_PROCESSED_BLOCK == 100

\* types.rs ChainId
Consensus == [kind |-> "Consensus"]
Domain(id) == [kind |-> "Domain", id |-> id]
Chains == {Consensus, Domain(0)}

\* types.rs Display for ChainId
ChainIdToString(chain_id) ==
    IF chain_id.kind = "Consensus" THEN "Consensus"
    ELSE "Domain(" \o ToString(chain_id.id) \o ")"

\* no row of indexer.metadata for the process; no block
NoRow == 0 - 1
NoBlock == 0 - 1
\* Option<T> columns: NULL, or the value
None == << >>
Some(v) == << v >>

\* mutant: every chain uses the same process key
get_processor_key_shared(chain_id) == "xdm_processor"

get_processor_key(chain_id) == "xdm_processor_" \o ChainIdToString(chain_id)

ProcessKeys == {get_processor_key(c) : c \in Chains}

\* mutant: the test of the checkpoint block is inverted
is_multiple_of_inverted(n, d) == IF d = 0 THEN n # 0 ELSE n % d # 0

is_multiple_of(n, d) == IF d = 0 THEN n = 0 ELSE n % d = 0

Min(a, b) == IF a <= b THEN a ELSE b

SeqMin(q) == CHOOSE x \in {q[i] : i \in DOMAIN q} : \A j \in DOMAIN q : x <= q[j]
SeqMax(q) == CHOOSE x \in {q[i] : i \in DOMAIN q} : \A j \in DOMAIN q : x >= q[j]

----------------------------------------------------------------------------
(* Chain data: the events each chain carries in each block *)

Location(chain_id, account_id) == [chain_id |-> chain_id, account_id |-> account_id]

OutgoingTransferInitiated(message_id, amount, sender, receiver) ==
    [type |-> "OutgoingTransferInitiated", message_id |-> message_id,
     transfer |-> [amount |-> amount, sender |-> sender, receiver |-> receiver]]

OutgoingTransferFailed(chain_id, message_id) ==
    [type |-> "OutgoingTransferFailed", chain_id |-> chain_id, message_id |-> message_id]

OutgoingTransferSuccessful(chain_id, message_id) ==
    [type |-> "OutgoingTransferSuccessful", chain_id |-> chain_id, message_id |-> message_id]

IncomingTransferSuccessful(chain_id, message_id, amount) ==
    [type |-> "IncomingTransferSuccessful", chain_id |-> chain_id,
     message_id |-> message_id, amount |-> amount]

\* Result<T, Error>
Ok(value) == [ok |-> TRUE, value |-> value, error |-> ""]
Err(error) == [ok |-> FALSE, value |-> << >>, error |-> error]

\* subxt EventDetails: a record of the events of a block; fields holds the
\* values the field bytes decode to, None when they do not decode
EventDetails(pallet, variant, fields) == [decoded |-> TRUE, pallet |-> pallet, variant |-> variant, fields |-> fields]

\* an entry of the events of a block that does not decode as a record
Undecodable == [decoded |-> FALSE, pallet |-> "", variant |-> "", fields |-> None]

\* impl StaticEvent: PALLET and EVENT of the four event types
PALLET == "Transporter"
StaticEvents == {"OutgoingTransferInitiated", "OutgoingTransferFailed", "OutgoingTransferSuccessful", "IncomingTransferSuccessful"}

\* EventDetails::as_event::<E>(): Ok(None) for a record of another pallet or
\* variant, the decoded fields or the decode error for a record of E
as_event(event, E) ==
    IF event.pallet = PALLET /\ event.variant = E
    THEN IF event.fields = None THEN Err("Subspace") ELSE Ok(event.fields)
    ELSE Ok(None)

\* Result::ok().flatten()
ok_flatten(result) == IF result.ok THEN result.value ELSE None

\* impl From<E> for Event
Into(E, fields) ==
    CASE E = "OutgoingTransferFailed" -> OutgoingTransferFailed(fields.chain_id, fields.message_id)
      [] E = "OutgoingTransferSuccessful" -> OutgoingTransferSuccessful(fields.chain_id, fields.message_id)
      [] E = "IncomingTransferSuccessful" -> IncomingTransferSuccessful(fields.chain_id, fields.message_id, fields.amount)

\* the records of block_events that as_event::<E>() turns into Some(E)
OfType(block_events, E) == SelectSeq(block_events, LAMBDA event : ok_flatten(as_event(event, E)) # None)

\* mutant: a record that is not of type E is an error
as_events_closed(block_events, E) ==
    IF \E i \in DOMAIN block_events : as_event(block_events[i], E) = Ok(None)
    THEN Err("Subspace")
    ELSE Ok([i \in 1..Len(OfType(block_events, E)) |-> Into(E, OfType(block_events, E)[i].fields[1])])

\* xdm.rs 165-172
as_events(block_events, E) ==
    Ok([i \in 1..Len(OfType(block_events, E)) |-> Into(E, OfType(block_events, E)[i].fields[1])])

\* BlockExt: whether the events of the block can be fetched, the entries of its
\* events, and Transporter.OutgoingTransfers at the block
BlockExt(fetched, records, OutgoingTransfers) == [fetched |-> fetched, records |-> records, OutgoingTransfers |-> OutgoingTransfers]

\* an entry of OutgoingTransfers whose read fails (no Balance is negative)
Unreadable == [amount |-> 0 - 1, sender |-> [chain_id |-> Consensus, account_id |-> ""], receiver |-> [chain_id |-> Consensus, account_id |-> ""]]

\* what read_storage returns for a key without an entry
MissingEntry == Err("Subspace")

\* block_ext.read_storage("Transporter", "OutgoingTransfers", (k1, k2))
read_storage(block_ext, k1, k2) ==
    IF <<k1, k2>> \notin DOMAIN block_ext.OutgoingTransfers THEN MissingEntry
    ELSE IF block_ext.OutgoingTransfers[<<k1, k2>>] = Unreadable THEN Err("Subspace")
    ELSE Ok(block_ext.OutgoingTransfers[<<k1, k2>>])

\* mutant: an initiated event whose storage entry cannot be read is left out
\* (filter_map over the reads instead of try_collect)
extract_xdm_events_for_block_skipping(chain, block_ext) ==
    IF chain \notin {Consensus, Domain(0)} THEN Err("Config")
    ELSE IF ~block_ext.fetched THEN Err("Subspace")
    ELSE LET block_events == IF chain = Consensus
                             THEN SelectSeq(block_ext.records, LAMBDA event : event.decoded)
                             ELSE block_ext.records
             failed == as_events(block_events, "OutgoingTransferFailed")
             successful == as_events(block_events, "OutgoingTransferSuccessful")
             incoming == as_events(block_events, "IncomingTransferSuccessful")
             transfer_initiated_events ==
                 SelectSeq(OfType(block_events, "OutgoingTransferInitiated"),
                           LAMBDA event : read_storage(block_ext, event.fields[1].chain_id,
                                                       event.fields[1].message_id).ok)
             reads == [i \in 1..Len(transfer_initiated_events) |->
                          read_storage(block_ext, transfer_initiated_events[i].fields[1].chain_id,
                                       transfer_initiated_events[i].fields[1].message_id)]
             outgoing_init_events ==
                 [i \in 1..Len(transfer_initiated_events) |->
                     OutgoingTransferInitiated(transfer_initiated_events[i].fields[1].message_id,
                                               reads[i].value.amount, reads[i].value.sender,
                                               reads[i].value.receiver)]
         IN Ok(failed.value \o successful.value \o incoming.value \o outgoing_init_events)

\* xdm.rs 114-163
extract_xdm_events_for_block(chain, block_ext) ==
    IF chain \notin {Consensus, Domain(0)} THEN Err("Config")
    ELSE IF ~block_ext.fetched THEN Err("Subspace")
    ELSE LET block_events == IF chain = Consensus
                             THEN SelectSeq(block_ext.records, LAMBDA event : event.decoded)
                             ELSE block_ext.records
             failed == as_events(block_events, "OutgoingTransferFailed")
             successful == as_events(block_events, "OutgoingTransferSuccessful")
             incoming == as_events(block_events, "IncomingTransferSuccessful")
             transfer_initiated_events == OfType(block_events, "OutgoingTransferInitiated")
             reads == [i \in 1..Len(transfer_initiated_events) |->
                          read_storage(block_ext, transfer_initiated_events[i].fields[1].chain_id,
                                       transfer_initiated_events[i].fields[1].message_id)]
             outgoing_init_events ==
                 [i \in 1..Len(transfer_initiated_events) |->
                     OutgoingTransferInitiated(transfer_initiated_events[i].fields[1].message_id,
                                               reads[i].value.amount, reads[i].value.sender,
                                               reads[i].value.receiver)]
         IN IF ~failed.ok THEN failed
            ELSE IF ~successful.ok THEN successful
            ELSE IF ~incoming.ok THEN incoming
            ELSE IF \E i \in DOMAIN reads : ~reads[i].ok THEN Err("Subspace")
            ELSE Ok(failed.value \o successful.value \o incoming.value \o outgoing_init_events)

Transfer(amount, sender, receiver) == [amount |-> amount, sender |-> sender, receiver |-> receiver]

\* the records of the four event types, as the chains emit them
Initiated(chain_id, message_id, amount) == EventDetails(PALLET, "OutgoingTransferInitiated", Some([chain_id |-> chain_id, message_id |-> message_id, amount |-> amount]))
Failed(chain_id, message_id) == EventDetails(PALLET, "OutgoingTransferFailed", Some([chain_id |-> chain_id, message_id |-> message_id]))
Successful(chain_id, message_id) == EventDetails(PALLET, "OutgoingTransferSuccessful", Some([chain_id |-> chain_id, message_id |-> message_id]))
Incoming(chain_id, message_id, amount) == EventDetails(PALLET, "IncomingTransferSuccessful", Some([chain_id |-> chain_id, message_id |-> message_id, amount |-> amount]))

\* a record of a recognized type whose field bytes do not decode
Malformed(E) == EventDetails(PALLET, E, None)

\* records of other pallets and variants
Unrelated == {EventDetails("Balances", "Transfer", None), EventDetails("Messenger", "OutgoingTransferFailed", Some([chain_id |-> Consensus, message_id |-> <<0, 1>>]))}

NoTransfers == [k \in {} |-> Transfer(0, Location(Consensus, ""), Location(Consensus, ""))]
OneTransfer(chain_id, message_id, transfer) == [k \in {<<chain_id, message_id>>} |-> transfer]

\* block number b of chain c, as block_provider.block_ext_at_number returns it
ChainBlock(c, b) ==
    LET r == b % CHECKPOINT_PROCESSED_BLOCK
        other == EventDetails("Balances", "Transfer", None)
    IN
    IF c = Consensus THEN
        CASE r = 1 -> BlockExt(TRUE, << other, Initiated(Domain(0), <<0, 1>>, 5) >>,
                               OneTransfer(Domain(0), <<0, 1>>,
                                   Transfer(5, Location(Consensus, "A"), Location(Domain(0), "B"))))
          [] r = 2 -> BlockExt(TRUE, << Undecodable, Successful(Domain(0), <<0, 1>>) >>, NoTransfers)
          [] r = 0 -> BlockExt(TRUE, << Initiated(Domain(0), <<0, 2>>, 7), other,
                                        Failed(Domain(0), <<0, 2>>) >>,
                               OneTransfer(Domain(0), <<0, 2>>,
                                   Transfer(7, Location(Consensus, "A"), Location(Domain(0), "B"))))
          [] r \in {50, 51} -> BlockExt(TRUE, << Initiated(Domain(0), <<0, 3>>, 5) >>,
                                        OneTransfer(Domain(0), <<0, 3>>,
                                            Transfer(5, Location(Consensus, "A"), Location(Domain(0), "B"))))
          [] r = 52 -> BlockExt(TRUE, << Successful(Domain(0), <<0, 3>>) >>, NoTransfers)
          [] OTHER -> BlockExt(TRUE, << other >>, NoTransfers)
    ELSE
        CASE r = 1 -> BlockExt(TRUE, << Incoming(Consensus, <<0, 1>>, 5), other >>, NoTransfers)
          [] r = 0 -> BlockExt(TRUE, << Initiated(Consensus, <<0, 1>>, 9) >>,
                               OneTransfer(Consensus, <<0, 1>>,
                                   Transfer(9, Location(Domain(0), "B"), Location(Consensus, "A"))))
          [] r = 50 -> BlockExt(TRUE, << Incoming(Consensus, <<0, 3>>, 5) >>, NoTransfers)
          [] r = 51 -> BlockExt(TRUE, << Initiated(Consensus, <<0, 3>>, 9) >>,
                                OneTransfer(Consensus, <<0, 3>>,
                                    Transfer(9, Location(Domain(0), "B"), Location(Consensus, "A"))))
          [] OTHER -> BlockExt(TRUE, << >>, NoTransfers)

\* what extract_xdm_events_for_block returns for block number b of chain c
ChainEvents(c, b) == extract_xdm_events_for_block(c, ChainBlock(c, b)).value

BlockHash(c, b) == <<ChainIdToString(c), b>>
BlockTime(c, b) == b
to_hex(hash) == <<"0x", hash>>

HashAndNumber(c, b) == [number |-> b, hash |-> BlockHash(c, b)]

----------------------------------------------------------------------------
(* storage.rs: the transfer table *)

NullRow ==
    [sender |-> None, receiver |-> None, amount |-> None,
     transfer_initiated_block_number |-> None,
     transfer_initiated_block_hash |-> None,
     transfer_initiated_on_src_at |-> None,
     transfer_executed_on_dst_block_number |-> None,
     transfer_executed_on_dst_block_hash |-> None,
     transfer_executed_on_dst_at |-> None,
     transfer_acknowledged_on_src_block_number |-> None,
     transfer_acknowledged_on_src_block_hash |-> None,
     transfer_acknowledged_on_src_at |-> None,
     transfer_successful |-> None]

TransferKey(src_chain, dst_chain, message_id) ==
    <<ChainIdToString(src_chain), ChainIdToString(dst_chain), message_id[1], message_id[2]>>

\* mutant: on conflict the row is replaced by the inserted one
UpsertReplace(tbl, key, cols) ==
    LET row == [f \in DOMAIN NullRow |-> IF f \in DOMAIN cols THEN cols[f] ELSE NullRow[f]]
    IN [k \in DOMAIN tbl \cup {key} |-> IF k = key THEN row ELSE tbl[k]]

\* insert ... on conflict (src_chain, dst_chain, channel_id, nonce) do update set ...
Upsert(tbl, key, cols) ==
    LET old == IF key \in DOMAIN tbl THEN tbl[key] ELSE NullRow
        row == [f \in DOMAIN NullRow |-> IF f \in DOMAIN cols THEN cols[f] ELSE old[f]]
    IN [k \in DOMAIN tbl \cup {key} |-> IF k = key THEN row ELSE tbl[k]]

\* mutant: on conflict the amount executed is added to the amount stored
store_incoming_transfer_execution_adding(tbl, block, dst_chain, block_time, transfer) ==
    LET key == TransferKey(transfer.chain_id, dst_chain, transfer.message_id)
        sum == IF key \in DOMAIN tbl /\ tbl[key].amount # None
               THEN tbl[key].amount[1] + transfer.amount
               ELSE transfer.amount
    IN Upsert(tbl, key,
              [amount |-> Some(sum),
               transfer_executed_on_dst_block_number |-> Some(block.number),
               transfer_executed_on_dst_block_hash |-> Some(to_hex(block.hash)),
               transfer_successful |-> Some(TRUE),
               transfer_executed_on_dst_at |-> Some(block_time)])

\* mutant: the chain of the event is bound as dst_chain and the chain of the
\* pipeline as src_chain
store_incoming_transfer_execution_swapped(tbl, block, dst_chain, block_time, transfer) ==
    Upsert(tbl, TransferKey(dst_chain, transfer.chain_id, transfer.message_id),
           [amount |-> Some(transfer.amount),
            transfer_executed_on_dst_block_number |-> Some(block.number),
            transfer_executed_on_dst_block_hash |-> Some(to_hex(block.hash)),
            transfer_successful |-> Some(TRUE),
            transfer_executed_on_dst_at |-> Some(block_time)])

store_incoming_transfer_execution(tbl, block, dst_chain, block_time, transfer) ==
    Upsert(tbl, TransferKey(transfer.chain_id, dst_chain, transfer.message_id),
           [amount |-> Some(transfer.amount),
            transfer_executed_on_dst_block_number |-> Some(block.number),
            transfer_executed_on_dst_block_hash |-> Some(to_hex(block.hash)),
            transfer_successful |-> Some(TRUE),
            transfer_executed_on_dst_at |-> Some(block_time)])

store_outgoing_transfer_acknowledgement(tbl, block, src_chain, dst_chain, block_time, message_id, transfer_status) ==
    Upsert(tbl, TransferKey(src_chain, dst_chain, message_id),
           [transfer_acknowledged_on_src_block_hash |-> Some(to_hex(block.hash)),
            transfer_acknowledged_on_src_block_number |-> Some(block.number),
            transfer_successful |-> Some(transfer_status),
            transfer_acknowledged_on_src_at |-> Some(block_time)])

\* mutant: the hash of the initiated block is left out of the insert
store_outgoing_transfer_initiated_without_hash(tbl, initiated_block, block_time, transfer) ==
    Upsert(tbl, TransferKey(transfer.transfer.sender.chain_id,
                            transfer.transfer.receiver.chain_id, transfer.message_id),
           [sender |-> Some(transfer.transfer.sender.account_id),
            receiver |-> Some(transfer.transfer.receiver.account_id),
            amount |-> Some(transfer.transfer.amount),
            transfer_initiated_block_number |-> Some(initiated_block.number),
            transfer_initiated_on_src_at |-> Some(block_time)])

store_outgoing_transfer_initiated(tbl, initiated_block, block_time, transfer) ==
    Upsert(tbl, TransferKey(transfer.transfer.sender.chain_id,
                            transfer.transfer.receiver.chain_id, transfer.message_id),
           [sender |-> Some(transfer.transfer.sender.account_id),
            receiver |-> Some(transfer.transfer.receiver.account_id),
            amount |-> Some(transfer.transfer.amount),
            transfer_initiated_block_number |-> Some(initiated_block.number),
            transfer_initiated_block_hash |-> Some(to_hex(initiated_block.hash)),
            transfer_initiated_on_src_at |-> Some(block_time)])

\* mutant: both outcome events are stored as successful
StoreEventAlwaysTrue(tbl, src_chain, block, block_time, event) ==
    CASE event.type = "OutgoingTransferInitiated" ->
            store_outgoing_transfer_initiated(tbl, block, block_time, event)
      [] event.type = "OutgoingTransferFailed" ->
            store_outgoing_transfer_acknowledgement(tbl, block, src_chain, event.chain_id,
                                                    block_time, event.message_id, TRUE)
      [] event.type = "OutgoingTransferSuccessful" ->
            store_outgoing_transfer_acknowledgement(tbl, block, src_chain, event.chain_id,
                                                    block_time, event.message_id, TRUE)
      [] event.type = "IncomingTransferSuccessful" ->
            store_incoming_transfer_execution(tbl, block, src_chain, block_time, event)

\* one iteration of the loop of store_events
StoreEvent(tbl, src_chain, block, block_time, event) ==
    CASE event.type = "OutgoingTransferInitiated" ->
            store_outgoing_transfer_initiated(tbl, block, block_time, event)
      [] event.type = "OutgoingTransferFailed" ->
            store_outgoing_transfer_acknowledgement(tbl, block, src_chain, event.chain_id,
                                                    block_time, event.message_id, FALSE)
      [] event.type = "OutgoingTransferSuccessful" ->
            store_outgoing_transfer_acknowledgement(tbl, block, src_chain, event.chain_id,
                                                    block_time, event.message_id, TRUE)
      [] event.type = "IncomingTransferSuccessful" ->
            store_incoming_transfer_execution(tbl, block, src_chain, block_time, event)

\* store_events: the events of one block, upserted in order
RECURSIVE store_events(_, _, _, _, _)
store_events(tbl, src_chain, block, block_time, events) ==
    IF events = << >> THEN tbl
    ELSE store_events(StoreEvent(tbl, src_chain, block, block_time, Head(events)),
                      src_chain, block, block_time, Tail(events))

----------------------------------------------------------------------------
(* storage.rs, api.rs: amounts and the conversion of a stored record for the API *)

\* A Balance (u128) is its sequence of decimal digits, most significant first,
\* << 0 >> for zero; a string of digits is a sequence of characters.
DigitChars == << "0", "1", "2", "3", "4", "5", "6", "7", "8", "9" >>

\* amount.to_string()
to_string(amount) == [i \in DOMAIN amount |-> DigitChars[amount[i] + 1]]

DigitOf(ch) == CHOOSE d \in 0..9 : DigitChars[d + 1] = ch

RECURSIVE StripLeadingZeros(_)
StripLeadingZeros(q) ==
    IF Len(q) > 1 /\ Head(q) = 0 THEN StripLeadingZeros(Tail(q)) ELSE q

\* the number a string of digits denotes
ParseDigits(text) == StripLeadingZeros([i \in DOMAIN text |-> DigitOf(text[i])])

\* a <= b for numbers
Leq(a, b) ==
    \/ Len(a) < Len(b)
    \/ /\ Len(a) = Len(b)
       /\ \/ a = b
          \/ \E i \in DOMAIN a : a[i] < b[i] /\ \A j \in 1..(i - 1) : a[j] = b[j]

\* $n::numeric(precision, 0): the value of the text, an error when it has more
\* digits than the precision
numeric(text, precision) ==
    IF Len(ParseDigits(text)) > precision THEN Err("DB") ELSE Ok(ParseDigits(text))

\* amount::text
numeric_text(number) == to_string(number)

\* u128::MAX and the largest mantissa of a rust_decimal Decimal, 2^96 - 1
U128_MAX == << 3,4,0,2,8,2,3,6,6,9,2,0,9,3,8,4,6,3,4,6,3,3,7,4,6,0,7,4,3,1,7,6,8,2,1,1,4,5,5 >>
DECIMAL_MAX == << 7,9,2,2,8,1,6,2,5,1,4,2,6,4,3,3,7,5,9,3,5,4,3,9,5,0,3,3,5 >>

\* the amount column read back into U128Compat
U128Compat(text) ==
    IF Leq(ParseDigits(text), U128_MAX) THEN Ok(ParseDigits(text)) ELSE Err("DB")

\* mutant: the amount goes through a double, which keeps 15 significant digits
BindAmountAsDouble(amount) ==
    numeric(to_string([i \in DOMAIN amount |-> IF i <= 15 THEN amount[i] ELSE 0]), 39)

\* values ($7::numeric(39, 0)) with .bind(amount.to_string()): the number in the
\* amount column
BindAmount(amount) == numeric(to_string(amount), 39)

\* the event as the insert statement receives it
Bound(event) ==
    IF event.type = "OutgoingTransferInitiated"
    THEN [event EXCEPT !.transfer.amount = BindAmount(@).value]
    ELSE IF event.type = "IncomingTransferSuccessful"
    THEN [event EXCEPT !.amount = BindAmount(@).value]
    ELSE event

\* Decimal::from(u128): mantissa and scale; the conversion panics above 2^96 - 1
DecimalFrom(n) ==
    IF Leq(n, DECIMAL_MAX) THEN Ok([mantissa |-> n, scale |-> 0]) ELSE Err("panic")

\* 10u128.pow(exp)
Pow10(exp) == << 1 >> \o [i \in 1..exp |-> 0]

RECURSIVE TrailingZeros(_)
TrailingZeros(q) ==
    IF Len(q) > 1 /\ q[Len(q)] = 0 THEN 1 + TrailingZeros(SubSeq(q, 1, Len(q) - 1)) ELSE 0

\* Decimal::div by a power of ten 10^k of scale 0: the quotient is exact, with the
\* smallest scale that represents it
div(a, k) ==
    LET cut == Min(k, TrailingZeros(a.mantissa))
    IN IF a.mantissa = << 0 >> THEN [mantissa |-> << 0 >>, scale |-> 0]
       ELSE [mantissa |-> SubSeq(a.mantissa, 1, Len(a.mantissa) - cut),
             scale |-> a.scale + k - cut]

\* main.rs 91: decimal_scale as the number of zeros of 10^token_decimals
decimal_scale(decimals) == TrailingZeros(DecimalFrom(Pow10(decimals)).value.mantissa)

\* storage.rs 59-71: a block group of the row as MaybeBlockDetails
MaybeBlockDetails(block_number, block_hash, block_time) ==
    IF block_number # None /\ block_hash # None /\ block_time # None
    THEN Some([block_number |-> block_number[1], block_hash |-> block_hash[1],
               block_time |-> block_time[1]])
    ELSE None

\* mutant: the amount is returned as it is stored
ApiXdmTransferUnscaled(scale, key, row) ==
    LET amount == IF row.amount = None THEN Ok(None)
                  ELSE Ok(Some(DecimalFrom(U128Compat(numeric_text(row.amount[1])).value).value))
    IN Ok([src_chain |-> key[1], dst_chain |-> key[2], channel_id |-> key[3], nonce |-> key[4],
           sender |-> row.sender, receiver |-> row.receiver, amount |-> amount.value,
           initiated_src_block |-> MaybeBlockDetails(row.transfer_initiated_block_number, row.transfer_initiated_block_hash, row.transfer_initiated_on_src_at),
           executed_dst_block |-> MaybeBlockDetails(row.transfer_executed_on_dst_block_number, row.transfer_executed_on_dst_block_hash, row.transfer_executed_on_dst_at),
           acknowledged_src_block |-> MaybeBlockDetails(row.transfer_acknowledged_on_src_block_number, row.transfer_acknowledged_on_src_block_hash, row.transfer_acknowledged_on_src_at),
           transfer_successful |-> row.transfer_successful])

\* storage.rs 73-126: From<(Decimal, XdmTransfer)> for api::XdmTransfer, for a row
\* selected with amount::text
ApiXdmTransfer(scale, key, row) ==
    LET amount == IF row.amount = None THEN Ok(None)
                  ELSE LET decimal == DecimalFrom(U128Compat(numeric_text(row.amount[1])).value)
                       IN IF decimal.ok THEN Ok(Some(div(decimal.value, scale))) ELSE decimal
    IN IF ~amount.ok THEN amount
       ELSE Ok([src_chain |-> key[1], dst_chain |-> key[2], channel_id |-> key[3], nonce |-> key[4],
                sender |-> row.sender, receiver |-> row.receiver, amount |-> amount.value,
                initiated_src_block |-> MaybeBlockDetails(row.transfer_initiated_block_number, row.transfer_initiated_block_hash, row.transfer_initiated_on_src_at),
                executed_dst_block |-> MaybeBlockDetails(row.transfer_executed_on_dst_block_number, row.transfer_executed_on_dst_block_hash, row.transfer_executed_on_dst_at),
                acknowledged_src_block |-> MaybeBlockDetails(row.transfer_acknowledged_on_src_block_number, row.transfer_acknowledged_on_src_block_hash, row.transfer_acknowledged_on_src_at),
                transfer_successful |-> row.transfer_successful])

----------------------------------------------------------------------------
(* storage.rs: the checkpoint table *)

\* Ok(number) or Err: the row of the process, NoRow when there is none
get_last_processed_block(meta, process) == meta[process]

\* mutant: ON CONFLICT DO NOTHING, the row of a process is only ever inserted
set_last_processed_block_insert_only(meta, process, block_number) ==
    IF meta[process] = NoRow THEN [meta EXCEPT ![process] = block_number] ELSE meta

set_last_processed_block(meta, process, block_number) ==
    [meta EXCEPT ![process] = block_number]

----------------------------------------------------------------------------
(* The state the service starts from *)

\* the table after the blocks of chain c in the set bs were indexed, in increasing
\* order and without failure (a block without events writes nothing)
RECURSIVE IndexedBlocks(_, _, _)
IndexedBlocks(tbl, c, bs) ==
    IF bs = {} THEN tbl
    ELSE LET b == CHOOSE x \in bs : \A y \in bs : x <= y
         IN IndexedBlocks(store_events(tbl, c, HashAndNumber(c, b), BlockTime(c, b),
                                       ChainEvents(c, b)), c, bs \ {b})

IndexedRange(tbl, c, lo, hi) ==
    IndexedBlocks(tbl, c, {b \in lo..hi : ChainEvents(c, b) # << >>})

EmptyTable == [k \in {} |-> NullRow]

\* heights the chains can be at when the service starts: a new chain, or a chain
\* two blocks short of a checkpoint block that earlier runs indexed so far
Bases == {0, CHECKPOINT_PROCESSED_BLOCK - 2}

Window(b) == (b + 1) .. (b + Span)

\* a batch announces up to MaxBatch different block numbers, in any order
Batches(b) ==
    {q \in UNION {[1..n -> Window(b)] : n \in 1..MaxBatch} :
        \A i, j \in DOMAIN q : i # j => q[i] # q[j]}

Idle == [c \in Chains |-> "recv"]
NoBatch == [c \in Chains |-> << >>]
Zero == [c \in Chains |-> 0]
NoTasks == [c \in Chains |-> << >>]
NoBlocks == [c \in Chains |-> {}]
NoCall == [c \in Chains |-> NoBlock]

\* positions of main: in its first and its second call of start_tasks (1, 2),
\* starting the server, waiting in join_next, returned
AtServer == 3
AtJoinNext == 4
Returned == 5

\* no call of extract_xdm_events_for_block is followed on its own
NoExtraction == extract_in = << >> /\ extract_out = << >>

\* main has started the tasks of both chains and waits in join_next; the join set
\* is not followed
ServiceRunning ==
    /\ start_chains = << Consensus, Domain(0) >>
    /\ main_pc = AtJoinNext
    /\ main_result = None
    /\ join_set = << >>
    /\ token_decimals = 18
    /\ response = None

Init ==
    /\ live \in {{c} : c \in Chains}
    /\ process_blocks_in_parallel \in 0..MaxP
    /\ base \in Bases
    /\ last_processed = [k \in ProcessKeys |-> IF base = 0 THEN NoRow ELSE base]
    /\ xdm_transfers = IndexedRange(IndexedRange(EmptyTable, Consensus, 1, base),
                                    Domain(0), 1, base)
    /\ pc = Idle
    /\ blocks_ext = NoBatch
    /\ last_processed_block_number = Zero
    /\ from = Zero
    /\ to = Zero
    /\ next_block = Zero
    /\ s = NoTasks
    /\ set_call = NoCall
    /\ yielded = NoCall
    /\ completed = NoBlocks
    /\ drained = NoBlocks
    /\ writes = NoBlocks
    /\ err_block = NoCall
    /\ indexed = [c \in Chains |-> 1..base]
    /\ retry_of = NoCall
    /\ NoExtraction
    /\ ServiceRunning

----------------------------------------------------------------------------
(* xdm.rs: index_xdm *)

Key(c) == get_processor_key(c)

\* mutant: a single announced block is indexed alone, whatever the checkpoint
ResolveRangeSingleAtBlock(last, blocks) ==
    IF Len(blocks) = 1
    THEN [from |-> blocks[1], to |-> blocks[1]]
    ELSE [from |-> Min(SeqMin(blocks), last + 1), to |-> SeqMax(blocks)]

\* mutant: a batch of several blocks ends at its last block, not at its highest
ResolveRangeMultiToLast(last, blocks) ==
    IF Len(blocks) = 1
    THEN [from |-> last + 1, to |-> blocks[1]]
    ELSE [from |-> Min(SeqMin(blocks), last + 1), to |-> blocks[Len(blocks)]]

\* mutant: a batch of several blocks starts at its lowest block, whatever the
\* checkpoint
ResolveRangeMultiFromMin(last, blocks) ==
    IF Len(blocks) = 1
    THEN [from |-> last + 1, to |-> blocks[1]]
    ELSE [from |-> SeqMin(blocks), to |-> SeqMax(blocks)]

\* lines 38-63: the range a batch resolves to, given the checkpoint read
ResolveRange(last, blocks) ==
    IF Len(blocks) = 1
    THEN [from |-> last + 1, to |-> blocks[1]]
    ELSE [from |-> Min(SeqMin(blocks), last + 1), to |-> SeqMax(blocks)]

Task(b) == [block |-> b, st |-> "fetch", i |-> 0]

\* mutant: every block of the range is admitted at once
FillCountUnbounded(q, nb, hi, max) ==
    LET left == hi - nb + 1
    IN IF left <= 0 THEN 0 ELSE left

\* mutant: the queue admits one task more than max
FillCountOneMore(q, nb, hi, max) ==
    LET room == max + 1 - Len(q)
        left == hi - nb + 1
    IN IF room <= 0 \/ left <= 0 THEN 0 ELSE Min(room, left)

\* Buffered::poll_next: the queue is filled up to max from the block iterator
FillCount(q, nb, hi, max) ==
    LET room == max - Len(q)
        left == hi - nb + 1
    IN IF room <= 0 \/ left <= 0 THEN 0 ELSE Min(room, left)

\* mutant: the iterator yields the block after the one it should
FillShifted(q, nb, hi, max) ==
    q \o [k \in 1..FillCount(q, nb, hi, max) |-> Task(nb + k)]

Fill(q, nb, hi, max) ==
    q \o [k \in 1..FillCount(q, nb, hi, max) |-> Task(nb + k - 1)]

Finished(task) == task.st \in {"ok", "err"}

\* mutant: the outputs are yielded as the tasks finish (buffer_unordered)
OutputIndexUnordered(c) ==
    IF \E j \in DOMAIN s[c] : Finished(s[c][j])
    THEN CHOOSE j \in DOMAIN s[c] :
            /\ Finished(s[c][j])
            /\ \A i \in DOMAIN s[c] : Finished(s[c][i]) => i <= j
    ELSE 1

\* Buffered yields the outputs in the order of the block iterator: the next
\* output is that of the oldest task in the queue
OutputIndex(c) == 1

NextOutput(c) == s[c][OutputIndex(c)]

Remove(q, j) == SubSeq(q, 1, j - 1) \o SubSeq(q, j + 1, Len(q))

\* the futures in the queue are polled while the next output is not ready
Polling(c) ==
    /\ pc[c] = "drain"
    /\ s[c] # << >>
    /\ ~Finished(s[c][OutputIndex(c)])

locals == <<blocks_ext, last_processed_block_number, from, to, next_block>>
ghosts == <<completed, drained, writes, err_block, indexed>>
config == <<live, process_blocks_in_parallel, base, token_decimals>>
extraction == <<extract_in, extract_out>>
service == <<start_chains, main_pc, main_result, join_set, response>>

\* line 30: stream.recv() yields a batch
Recv(c) ==
    /\ c \in live
    /\ pc[c] = "recv"
    /\ \E batch \in Batches(base) :
          blocks_ext' = [blocks_ext EXCEPT ![c] = batch]
    /\ pc' = [pc EXCEPT ![c] = "resolve"]
    /\ from' = [from EXCEPT ![c] = 0]
    /\ to' = [to EXCEPT ![c] = 0]
    /\ next_block' = [next_block EXCEPT ![c] = 0]
    /\ completed' = [completed EXCEPT ![c] = {}]
    /\ drained' = [drained EXCEPT ![c] = {}]
    /\ writes' = [writes EXCEPT ![c] = {}]
    /\ set_call' = [set_call EXCEPT ![c] = NoBlock]
    /\ yielded' = [yielded EXCEPT ![c] = NoBlock]
    /\ UNCHANGED <<config, extraction, service, retry_of, last_processed, xdm_transfers, last_processed_block_number,
                   s, err_block, indexed>>

\* line 30: stream.recv() fails and index_xdm returns the error
RecvErr(c) ==
    /\ c \in live
    /\ pc[c] = "recv"
    /\ pc' = [pc EXCEPT ![c] = "failed"]
    /\ set_call' = [set_call EXCEPT ![c] = NoBlock]
    /\ yielded' = [yielded EXCEPT ![c] = NoBlock]
    /\ UNCHANGED <<config, extraction, service, retry_of, last_processed, xdm_transfers, locals, s, ghosts>>

\* mutant: the answer of the database is used as it is, also when there is no row
ReadCheckpointNoDefault(meta, process, db_ok) ==
    IF db_ok THEN get_last_processed_block(meta, process) ELSE 0

\* lines 31-34: get_last_processed_block(..).await.unwrap_or(0)
ReadCheckpoint(meta, process, db_ok) ==
    IF db_ok /\ get_last_processed_block(meta, process) # NoRow
    THEN get_last_processed_block(meta, process)
    ELSE 0

\* lines 36-63: the range is resolved from the checkpoint read and the batch
Resolved(c, db_ok) ==
    /\ pc[c] = "resolve"
    /\ LET last == ReadCheckpoint(last_processed, Key(c), db_ok)
           r == ResolveRange(last, blocks_ext[c])
       IN /\ r.to - r.from < MaxRange
          /\ last_processed_block_number' =
                 [last_processed_block_number EXCEPT ![c] = last]
          /\ from' = [from EXCEPT ![c] = r.from]
          /\ to' = [to EXCEPT ![c] = r.to]
    /\ pc' = [pc EXCEPT ![c] = "resolved"]
    /\ set_call' = [set_call EXCEPT ![c] = NoBlock]
    /\ yielded' = [yielded EXCEPT ![c] = NoBlock]
    /\ UNCHANGED <<config, extraction, service, retry_of, last_processed, xdm_transfers, blocks_ext, next_block, s, ghosts>>

\* lines 31-63: the query of the checkpoint is answered (with the row, or with none)
Resolve(c) == Resolved(c, TRUE)

\* lines 31-63: the query of the checkpoint fails in the database or on the way
ResolveReadErr(c) == Resolved(c, FALSE)

\* lines 65-67: an empty range is skipped
Skip(c) ==
    /\ pc[c] = "resolved"
    /\ from[c] > to[c]
    /\ pc' = [pc EXCEPT ![c] = "recv"]
    /\ blocks_ext' = [blocks_ext EXCEPT ![c] = << >>]
    /\ last_processed_block_number' = [last_processed_block_number EXCEPT ![c] = 0]
    /\ from' = [from EXCEPT ![c] = 0]
    /\ to' = [to EXCEPT ![c] = 0]
    /\ set_call' = [set_call EXCEPT ![c] = NoBlock]
    /\ yielded' = [yielded EXCEPT ![c] = NoBlock]
    /\ UNCHANGED <<config, extraction, service, retry_of, last_processed, xdm_transfers, next_block, s, ghosts>>

\* mutant: the empty range is not skipped
StartRangeUnguarded(c) ==
    /\ pc[c] = "resolved"
    /\ pc' = [pc EXCEPT ![c] = "drain"]
    /\ s' = [s EXCEPT ![c] = Fill(<< >>, from[c], to[c], process_blocks_in_parallel)]
    /\ next_block' = [next_block EXCEPT ![c] =
            from[c] + FillCount(<< >>, from[c], to[c], process_blocks_in_parallel)]
    /\ completed' = [completed EXCEPT ![c] = {}]
    /\ drained' = [drained EXCEPT ![c] = {}]
    /\ writes' = [writes EXCEPT ![c] = {}]
    /\ blocks_ext' = [blocks_ext EXCEPT ![c] = << >>]
    /\ last_processed_block_number' = [last_processed_block_number EXCEPT ![c] = 0]
    /\ set_call' = [set_call EXCEPT ![c] = NoBlock]
    /\ yielded' = [yielded EXCEPT ![c] = NoBlock]
    /\ UNCHANGED <<config, extraction, service, retry_of, last_processed, xdm_transfers, from, to, err_block, indexed>>

\* lines 70-82: the buffered stream over from..=to is built and first polled; the
\* batch and the checkpoint read are not used again
StartRange(c) ==
    /\ pc[c] = "resolved"
    /\ from[c] <= to[c]
    /\ pc' = [pc EXCEPT ![c] = "drain"]
    /\ s' = [s EXCEPT ![c] = Fill(<< >>, from[c], to[c], process_blocks_in_parallel)]
    /\ next_block' = [next_block EXCEPT ![c] =
            from[c] + FillCount(<< >>, from[c], to[c], process_blocks_in_parallel)]
    /\ completed' = [completed EXCEPT ![c] = {}]
    /\ drained' = [drained EXCEPT ![c] = {}]
    /\ writes' = [writes EXCEPT ![c] = {}]
    /\ blocks_ext' = [blocks_ext EXCEPT ![c] = << >>]
    /\ last_processed_block_number' = [last_processed_block_number EXCEPT ![c] = 0]
    /\ set_call' = [set_call EXCEPT ![c] = NoBlock]
    /\ yielded' = [yielded EXCEPT ![c] = NoBlock]
    /\ UNCHANGED <<config, extraction, service, retry_of, last_processed, xdm_transfers, from, to, err_block, indexed>>

TaskOk(c, j) ==
    /\ s' = [s EXCEPT ![c][j].st = "ok"]
    /\ completed' = [completed EXCEPT ![c] = @ \cup {s[c][j].block}]
    /\ indexed' = [indexed EXCEPT ![c] = @ \cup {s[c][j].block}]

\* lines 100-102: the block is fetched and its events extracted
TaskFetch(c, j) ==
    /\ Polling(c)
    /\ j \in DOMAIN s[c]
    /\ s[c][j].st = "fetch"
    /\ IF ChainEvents(c, s[c][j].block) = << >>
       THEN TaskOk(c, j)
       ELSE /\ s' = [s EXCEPT ![c][j].st = "store"]
            /\ UNCHANGED <<completed, indexed>>
    /\ set_call' = [set_call EXCEPT ![c] = NoBlock]
    /\ yielded' = [yielded EXCEPT ![c] = NoBlock]
    /\ UNCHANGED <<config, extraction, service, retry_of, last_processed, xdm_transfers, pc, locals,
                   drained, writes, err_block>>

\* mutant: the error of the fetch is dropped and the task returns Ok
TaskFetchErrSwallowed(c, j) ==
    /\ Polling(c)
    /\ j \in DOMAIN s[c]
    /\ s[c][j].st = "fetch"
    /\ s' = [s EXCEPT ![c][j].st = "ok"]
    /\ set_call' = [set_call EXCEPT ![c] = NoBlock]
    /\ yielded' = [yielded EXCEPT ![c] = NoBlock]
    /\ UNCHANGED <<config, extraction, service, retry_of, last_processed, xdm_transfers, pc, locals, ghosts>>

\* lines 100-101: block_ext_at_number or extract_xdm_events_for_block fails
TaskFetchErr(c, j) ==
    /\ Polling(c)
    /\ j \in DOMAIN s[c]
    /\ s[c][j].st = "fetch"
    /\ s' = [s EXCEPT ![c][j].st = "err"]
    /\ set_call' = [set_call EXCEPT ![c] = NoBlock]
    /\ yielded' = [yielded EXCEPT ![c] = NoBlock]
    /\ UNCHANGED <<config, extraction, service, retry_of, last_processed, xdm_transfers, pc, locals, ghosts>>

\* mutant: the task returns Ok when the first event of the block is upserted
TaskStoreCompletesEarly(c, j) ==
    /\ Polling(c)
    /\ j \in DOMAIN s[c]
    /\ s[c][j].st = "store"
    /\ LET b == s[c][j].block
           events == ChainEvents(c, b)
           n == s[c][j].i + 1
       IN /\ xdm_transfers' = StoreEvent(xdm_transfers, c, HashAndNumber(c, b),
                                         BlockTime(c, b), events[n])
          /\ writes' = [writes EXCEPT ![c] = @ \cup {<<b, n>>}]
          /\ s' = [s EXCEPT ![c][j] = [@ EXCEPT !.st = "ok", !.i = n]]
          /\ completed' = [completed EXCEPT ![c] = @ \cup {b}]
          /\ indexed' = [indexed EXCEPT ![c] = @ \cup {b}]
    /\ set_call' = [set_call EXCEPT ![c] = NoBlock]
    /\ yielded' = [yielded EXCEPT ![c] = NoBlock]
    /\ UNCHANGED <<config, extraction, service, retry_of, last_processed, pc, locals, drained, err_block>>

\* line 108 and storage.rs 196-229: the next event of the block is upserted
TaskStore(c, j) ==
    /\ Polling(c)
    /\ j \in DOMAIN s[c]
    /\ s[c][j].st = "store"
    /\ LET b == s[c][j].block
           events == ChainEvents(c, b)
           n == s[c][j].i + 1
       IN /\ xdm_transfers' = StoreEvent(xdm_transfers, c, HashAndNumber(c, b),
                                         BlockTime(c, b), events[n])
          /\ writes' = [writes EXCEPT ![c] = @ \cup {<<b, n>>}]
          /\ IF n = Len(events)
             THEN /\ s' = [s EXCEPT ![c][j] = [@ EXCEPT !.st = "ok", !.i = n]]
                  /\ completed' = [completed EXCEPT ![c] = @ \cup {b}]
                  /\ indexed' = [indexed EXCEPT ![c] = @ \cup {b}]
             ELSE /\ s' = [s EXCEPT ![c][j].i = n]
                  /\ UNCHANGED <<completed, indexed>>
    /\ set_call' = [set_call EXCEPT ![c] = NoBlock]
    /\ yielded' = [yielded EXCEPT ![c] = NoBlock]
    /\ UNCHANGED <<config, extraction, service, retry_of, last_processed, pc, locals, drained, err_block>>

\* storage.rs 196-229: an upsert fails and store_events returns the error
TaskStoreErr(c, j) ==
    /\ Polling(c)
    /\ j \in DOMAIN s[c]
    /\ s[c][j].st = "store"
    /\ s' = [s EXCEPT ![c][j].st = "err"]
    /\ set_call' = [set_call EXCEPT ![c] = NoBlock]
    /\ yielded' = [yielded EXCEPT ![c] = NoBlock]
    /\ UNCHANGED <<config, extraction, service, retry_of, last_processed, xdm_transfers, pc, locals, ghosts>>

\* mutant: no checkpoint is persisted while the range is drained
DrainNoCheckpoint(c) ==
    /\ pc[c] = "drain"
    /\ s[c] # << >>
    /\ NextOutput(c).st = "ok"
    /\ drained' = [drained EXCEPT ![c] = @ \cup {NextOutput(c).block}]
    /\ yielded' = [yielded EXCEPT ![c] = NextOutput(c).block]
    /\ set_call' = [set_call EXCEPT ![c] = NoBlock]
    /\ s' = [s EXCEPT ![c] = Fill(Remove(s[c], OutputIndex(c)), next_block[c], to[c],
                                  process_blocks_in_parallel)]
    /\ next_block' = [next_block EXCEPT ![c] =
            @ + FillCount(Remove(s[c], OutputIndex(c)), next_block[c], to[c],
                          process_blocks_in_parallel)]
    /\ UNCHANGED <<config, extraction, service, retry_of, last_processed, xdm_transfers, pc, blocks_ext,
                   last_processed_block_number, from, to, completed, writes, err_block, indexed>>

\* lines 82-87: a completed block is yielded; a checkpoint block is persisted
Drain(c) ==
    /\ pc[c] = "drain"
    /\ s[c] # << >>
    /\ NextOutput(c).st = "ok"
    /\ LET block == NextOutput(c).block IN
       /\ drained' = [drained EXCEPT ![c] = @ \cup {block}]
       /\ yielded' = [yielded EXCEPT ![c] = block]
       /\ IF is_multiple_of(block, CHECKPOINT_PROCESSED_BLOCK)
          THEN /\ last_processed' = set_last_processed_block(last_processed, Key(c), block)
               /\ set_call' = [set_call EXCEPT ![c] = block]
          ELSE /\ UNCHANGED last_processed
               /\ set_call' = [set_call EXCEPT ![c] = NoBlock]
    /\ s' = [s EXCEPT ![c] = Fill(Remove(s[c], OutputIndex(c)), next_block[c], to[c],
                                  process_blocks_in_parallel)]
    /\ next_block' = [next_block EXCEPT ![c] =
            @ + FillCount(Remove(s[c], OutputIndex(c)), next_block[c], to[c],
                          process_blocks_in_parallel)]
    /\ UNCHANGED <<config, extraction, service, retry_of, xdm_transfers, pc, blocks_ext, last_processed_block_number,
                   from, to, completed, writes, err_block, indexed>>

\* line 85: set_last_processed_block fails at a checkpoint block
DrainSetErr(c) ==
    /\ pc[c] = "drain"
    /\ s[c] # << >>
    /\ NextOutput(c).st = "ok"
    /\ is_multiple_of(NextOutput(c).block, CHECKPOINT_PROCESSED_BLOCK)
    /\ drained' = [drained EXCEPT ![c] = @ \cup {NextOutput(c).block}]
    /\ yielded' = [yielded EXCEPT ![c] = NextOutput(c).block]
    /\ pc' = [pc EXCEPT ![c] = "failed"]
    /\ s' = [s EXCEPT ![c] = << >>]
    /\ set_call' = [set_call EXCEPT ![c] = NoBlock]
    /\ UNCHANGED <<config, extraction, service, retry_of, last_processed, xdm_transfers, locals,
                   completed, writes, err_block, indexed>>

\* mutant: the error of a block task is dropped and the range goes on
DrainErrIgnored(c) ==
    /\ pc[c] = "drain"
    /\ s[c] # << >>
    /\ NextOutput(c).st = "err"
    /\ s' = [s EXCEPT ![c] = Fill(Remove(s[c], OutputIndex(c)), next_block[c], to[c],
                                  process_blocks_in_parallel)]
    /\ next_block' = [next_block EXCEPT ![c] =
            @ + FillCount(Remove(s[c], OutputIndex(c)), next_block[c], to[c],
                          process_blocks_in_parallel)]
    /\ set_call' = [set_call EXCEPT ![c] = NoBlock]
    /\ yielded' = [yielded EXCEPT ![c] = NoBlock]
    /\ UNCHANGED <<config, extraction, service, retry_of, last_processed, xdm_transfers, pc, blocks_ext,
                   last_processed_block_number, from, to, ghosts>>

\* mutant: the block whose task failed is persisted as the checkpoint before the
\* error is returned
DrainErrCheckpointed(c) ==
    /\ pc[c] = "drain"
    /\ s[c] # << >>
    /\ NextOutput(c).st = "err"
    /\ err_block' = [err_block EXCEPT ![c] = NextOutput(c).block]
    /\ last_processed' = set_last_processed_block(last_processed, Key(c), NextOutput(c).block)
    /\ pc' = [pc EXCEPT ![c] = "failed"]
    /\ s' = [s EXCEPT ![c] = << >>]
    /\ set_call' = [set_call EXCEPT ![c] = NoBlock]
    /\ yielded' = [yielded EXCEPT ![c] = NoBlock]
    /\ UNCHANGED <<config, extraction, service, retry_of, xdm_transfers, locals,
                   completed, drained, writes, indexed>>

\* line 82: try_next yields the error of a block task; index_xdm returns it and
\* the stream is dropped with the tasks still in it
DrainErr(c) ==
    /\ pc[c] = "drain"
    /\ s[c] # << >>
    /\ NextOutput(c).st = "err"
    /\ err_block' = [err_block EXCEPT ![c] = NextOutput(c).block]
    /\ pc' = [pc EXCEPT ![c] = "failed"]
    /\ s' = [s EXCEPT ![c] = << >>]
    /\ set_call' = [set_call EXCEPT ![c] = NoBlock]
    /\ yielded' = [yielded EXCEPT ![c] = NoBlock]
    /\ UNCHANGED <<config, extraction, service, retry_of, last_processed, xdm_transfers, locals,
                   completed, drained, writes, indexed>>

\* mutant: the stream ends when the iterator is exhausted, with tasks in the queue
ExhaustedEarly(c) ==
    /\ pc[c] = "drain"
    /\ next_block[c] > to[c]

\* the stream is exhausted: every block of the range was yielded
Exhausted(c) ==
    /\ pc[c] = "drain"
    /\ s[c] = << >>
    /\ next_block[c] > to[c]

\* mutant: the end of the range is persisted only when it is a checkpoint block
FinishRangeAligned(c) ==
    /\ Exhausted(c)
    /\ IF is_multiple_of(to[c], CHECKPOINT_PROCESSED_BLOCK)
       THEN /\ last_processed' = set_last_processed_block(last_processed, Key(c), to[c])
            /\ set_call' = [set_call EXCEPT ![c] = to[c]]
       ELSE /\ UNCHANGED last_processed
            /\ set_call' = [set_call EXCEPT ![c] = NoBlock]
    /\ yielded' = [yielded EXCEPT ![c] = NoBlock]
    /\ pc' = [pc EXCEPT ![c] = "recv"]
    /\ UNCHANGED <<config, extraction, service, retry_of, xdm_transfers, locals, s, ghosts>>

\* lines 89-90: the checkpoint is set to `to` and the loop goes on to the next batch
FinishRange(c) ==
    /\ Exhausted(c)
    /\ last_processed' = set_last_processed_block(last_processed, Key(c), to[c])
    /\ set_call' = [set_call EXCEPT ![c] = to[c]]
    /\ yielded' = [yielded EXCEPT ![c] = NoBlock]
    /\ pc' = [pc EXCEPT ![c] = "recv"]
    /\ UNCHANGED <<config, extraction, service, retry_of, xdm_transfers, locals, s, ghosts>>

\* line 90: set_last_processed_block fails at the end of the range
FinishSetErr(c) ==
    /\ Exhausted(c)
    /\ pc' = [pc EXCEPT ![c] = "failed"]
    /\ set_call' = [set_call EXCEPT ![c] = NoBlock]
    /\ yielded' = [yielded EXCEPT ![c] = NoBlock]
    /\ UNCHANGED <<config, extraction, service, retry_of, last_processed, xdm_transfers, locals, s, ghosts>>

----------------------------------------------------------------------------
(* main.rs: the service *)

\* lines 116-118: a task of the join set exited, main returns; the supervisor
\* starts the service again on the same database
Restart ==
    /\ \E c \in Chains : pc[c] = "failed"
    /\ pc' = Idle
    /\ blocks_ext' = NoBatch
    /\ last_processed_block_number' = Zero
    /\ from' = Zero
    /\ to' = Zero
    /\ next_block' = Zero
    /\ s' = NoTasks
    /\ set_call' = NoCall
    /\ yielded' = NoCall
    /\ completed' = NoBlocks
    /\ drained' = NoBlocks
    /\ writes' = NoBlocks
    /\ err_block' = NoCall
    /\ retry_of' = err_block
    /\ UNCHANGED <<config, extraction, service, last_processed, xdm_transfers, indexed>>

Pipeline(c) ==
    \/ Recv(c)
    \/ RecvErr(c)
    \/ Resolve(c)
    \/ Skip(c)
    \/ StartRange(c)
    \/ Drain(c)
    \/ DrainSetErr(c)
    \/ DrainErr(c)
    \/ FinishRange(c)
    \/ FinishSetErr(c)
    \/ \E j \in 1..MaxP + 1 :
          \/ TaskFetch(c, j)
          \/ TaskFetchErr(c, j)
          \/ TaskStore(c, j)
          \/ TaskStoreErr(c, j)

Next ==
    \/ \E c \in Chains : Pipeline(c) \/ ResolveReadErr(c)
    \/ Restart

Spec == Init /\ [][Next]_vars

\* the service with a database whose checkpoint queries never fail
NextReliableReads ==
    \/ \E c \in Chains : Pipeline(c)
    \/ Restart

SpecReliableReads == Init /\ [][NextReliableReads]_vars

----------------------------------------------------------------------------
(* storage.rs: the checkpoint table on its own *)

\* an empty indexer.metadata table and no call made
InitCheckpoint ==
    /\ live = Chains
    /\ process_blocks_in_parallel = 1
    /\ base = 0
    /\ last_processed = [k \in ProcessKeys |-> NoRow]
    /\ xdm_transfers = EmptyTable
    /\ pc = Idle
    /\ blocks_ext = NoBatch
    /\ last_processed_block_number = Zero
    /\ from = Zero
    /\ to = Zero
    /\ next_block = Zero
    /\ s = NoTasks
    /\ set_call = NoCall
    /\ yielded = NoCall
    /\ completed = NoBlocks
    /\ drained = NoBlocks
    /\ writes = NoBlocks
    /\ err_block = NoCall
    /\ indexed = NoBlocks
    /\ retry_of = NoCall
    /\ NoExtraction
    /\ ServiceRunning

\* storage.rs 150-169: set_last_processed_block(process of c, n) returns Ok
SetCheckpoint(c, n) ==
    /\ last_processed' = set_last_processed_block(last_processed, Key(c), n)
    /\ set_call' = [set_call EXCEPT ![c] = n]
    /\ UNCHANGED <<config, extraction, service, retry_of, xdm_transfers, pc, locals, s, yielded, ghosts>>

\* storage.rs 171-187: get_last_processed_block(process of c) returns; the caller
\* holds the number, or NoRow for the error of fetch_one when there is no row
GetCheckpoint(c) ==
    /\ last_processed_block_number' =
           [last_processed_block_number EXCEPT ![c] = get_last_processed_block(last_processed, Key(c))]
    /\ pc' = [pc EXCEPT ![c] = "resolved"]
    /\ UNCHANGED <<config, extraction, service, retry_of, last_processed, xdm_transfers, blocks_ext,
                   from, to, next_block, s, set_call, yielded, ghosts>>

NextCheckpoint ==
    \E c \in Chains :
        \/ \E n \in 0..MaxBlockNumber : SetCheckpoint(c, n)
        \/ GetCheckpoint(c)

SpecCheckpoint == InitCheckpoint /\ [][NextCheckpoint]_vars

----------------------------------------------------------------------------
(* xdm.rs: a range longer than the checkpoint interval *)

\* the chain is new or was indexed up to a checkpoint block; the stream announced a
\* single block one interval or more above, and the range was resolved
InitDeepRange ==
    /\ live \in {{c} : c \in Chains}
    /\ process_blocks_in_parallel \in 1..MaxP
    /\ base \in {0, CHECKPOINT_PROCESSED_BLOCK}
    /\ last_processed = [k \in ProcessKeys |-> IF base = 0 THEN NoRow ELSE base]
    /\ xdm_transfers = IndexedRange(IndexedRange(EmptyTable, Consensus, 1, base),
                                    Domain(0), 1, base)
    /\ blocks_ext \in {[c \in Chains |-> IF c \in live THEN << b >> ELSE << >>] :
                          b \in {base + CHECKPOINT_PROCESSED_BLOCK, base + CHECKPOINT_PROCESSED_BLOCK + 1}}
    /\ pc = [c \in Chains |-> IF c \in live THEN "resolved" ELSE "recv"]
    /\ last_processed_block_number =
           [c \in Chains |-> IF c \in live THEN ReadCheckpoint(last_processed, Key(c), TRUE) ELSE 0]
    /\ from = [c \in Chains |-> IF c \in live
                                THEN ResolveRange(last_processed_block_number[c], blocks_ext[c]).from
                                ELSE 0]
    /\ to = [c \in Chains |-> IF c \in live
                              THEN ResolveRange(last_processed_block_number[c], blocks_ext[c]).to
                              ELSE 0]
    /\ next_block = Zero
    /\ s = NoTasks
    /\ set_call = NoCall
    /\ yielded = NoCall
    /\ completed = NoBlocks
    /\ drained = NoBlocks
    /\ writes = NoBlocks
    /\ err_block = NoCall
    /\ indexed = [c \in Chains |-> 1..base]
    /\ retry_of = NoCall
    /\ NoExtraction
    /\ ServiceRunning

\* the range is processed; only the checkpoint writes can fail
NextDeepRange ==
    \E c \in Chains :
        \/ StartRange(c)
        \/ Drain(c)
        \/ DrainSetErr(c)
        \/ FinishRange(c)
        \/ FinishSetErr(c)
        \/ \E j \in 1..MaxP + 1 : TaskFetch(c, j) \/ TaskStore(c, j)

SpecDeepRange == InitDeepRange /\ [][NextDeepRange]_vars

----------------------------------------------------------------------------
(* xdm.rs: a range whose blocks write the same records *)

\* the table the service starts on: the blocks up to base of both chains, indexed
Before == IndexedRange(IndexedRange(EmptyTable, Consensus, 1, base), Domain(0), 1, base)

\* the chain was indexed up to the block before two blocks that carry an Initiated
\* event for the same key; the stream announced a block above them and the range
\* was resolved
InitSameKey ==
    /\ live \in {{c} : c \in Chains}
    /\ process_blocks_in_parallel \in 1..MaxP
    /\ base = 49
    /\ last_processed = [k \in ProcessKeys |-> base]
    /\ xdm_transfers = Before
    /\ blocks_ext \in {[c \in Chains |-> IF c \in live THEN << b >> ELSE << >>] :
                          b \in {base + 2, base + 3}}
    /\ pc = [c \in Chains |-> IF c \in live THEN "resolved" ELSE "recv"]
    /\ last_processed_block_number =
           [c \in Chains |-> IF c \in live THEN ReadCheckpoint(last_processed, Key(c), TRUE) ELSE 0]
    /\ from = [c \in Chains |-> IF c \in live
                                THEN ResolveRange(last_processed_block_number[c], blocks_ext[c]).from
                                ELSE 0]
    /\ to = [c \in Chains |-> IF c \in live
                              THEN ResolveRange(last_processed_block_number[c], blocks_ext[c]).to
                              ELSE 0]
    /\ next_block = Zero
    /\ s = NoTasks
    /\ set_call = NoCall
    /\ yielded = NoCall
    /\ completed = NoBlocks
    /\ drained = NoBlocks
    /\ writes = NoBlocks
    /\ err_block = NoCall
    /\ indexed = [c \in Chains |-> 1..base]
    /\ retry_of = NoCall
    /\ NoExtraction
    /\ ServiceRunning

\* the range is processed and no task or checkpoint write fails
NextSameKey ==
    \E c \in Chains :
        \/ StartRange(c)
        \/ Drain(c)
        \/ FinishRange(c)
        \/ \E j \in 1..MaxP + 1 : TaskFetch(c, j) \/ TaskStore(c, j)

SpecSameKey == InitSameKey /\ [][NextSameKey]_vars

----------------------------------------------------------------------------
(* xdm.rs, main.rs: a range processed under fair scheduling *)

\* the stream announced one block above the checkpoint and the non-empty range was
\* resolved; --process-blocks-in-parallel is any value the command line accepts
InitProgress ==
    /\ live \in {{c} : c \in Chains}
    /\ process_blocks_in_parallel \in 0..MaxP
    /\ base \in Bases
    /\ last_processed = [k \in ProcessKeys |-> IF base = 0 THEN NoRow ELSE base]
    /\ xdm_transfers = Before
    /\ blocks_ext \in {[c \in Chains |-> IF c \in live THEN << b >> ELSE << >>] : b \in Window(base)}
    /\ pc = [c \in Chains |-> IF c \in live THEN "resolved" ELSE "recv"]
    /\ last_processed_block_number =
           [c \in Chains |-> IF c \in live THEN ReadCheckpoint(last_processed, Key(c), TRUE) ELSE 0]
    /\ from = [c \in Chains |-> IF c \in live
                                THEN ResolveRange(last_processed_block_number[c], blocks_ext[c]).from
                                ELSE 0]
    /\ to = [c \in Chains |-> IF c \in live
                              THEN ResolveRange(last_processed_block_number[c], blocks_ext[c]).to
                              ELSE 0]
    /\ next_block = Zero
    /\ s = NoTasks
    /\ set_call = NoCall
    /\ yielded = NoCall
    /\ completed = NoBlocks
    /\ drained = NoBlocks
    /\ writes = NoBlocks
    /\ err_block = NoCall
    /\ indexed = [c \in Chains |-> 1..base]
    /\ retry_of = NoCall
    /\ NoExtraction
    /\ ServiceRunning

\* a step of the task in slot j of the stream of chain c
TaskStep(c, j) == TaskFetch(c, j) \/ TaskStore(c, j)

\* a step of the processor of chain c, in which no task and no write fails
ProcessorStep(c) == StartRange(c) \/ Drain(c) \/ FinishRange(c)

NextProgress == \E c \in Chains : ProcessorStep(c) \/ \E j \in 1..MaxP + 1 : TaskStep(c, j)

\* the runtime polls the processor and every admitted task again when it can go on
FairScheduling ==
    \A c \in Chains :
        /\ WF_vars(ProcessorStep(c))
        /\ \A j \in 1..MaxP + 1 : WF_vars(TaskStep(c, j))

SpecProgress == InitProgress /\ [][NextProgress]_vars /\ FairScheduling

\* the same runs with a parallelism bound of one or more
InitAdmitting == InitProgress /\ process_blocks_in_parallel >= 1

SpecAdmitting == InitAdmitting /\ [][NextProgress]_vars /\ FairScheduling



----------------------------------------------------------------------------
(* main.rs: the pipelines of both chains side by side *)

\* both streams deliver batches, on a database never written to; each pipeline
\* processes its blocks one at a time
InitTwoChains ==
    /\ live = Chains
    /\ process_blocks_in_parallel = 1
    /\ base = 0
    /\ last_processed = [k \in ProcessKeys |-> NoRow]
    /\ xdm_transfers = EmptyTable
    /\ pc = Idle
    /\ blocks_ext = NoBatch
    /\ last_processed_block_number = Zero
    /\ from = Zero
    /\ to = Zero
    /\ next_block = Zero
    /\ s = NoTasks
    /\ set_call = NoCall
    /\ yielded = NoCall
    /\ completed = NoBlocks
    /\ drained = NoBlocks
    /\ writes = NoBlocks
    /\ err_block = NoCall
    /\ indexed = NoBlocks
    /\ retry_of = NoCall
    /\ NoExtraction
    /\ ServiceRunning

\* the steps of a pipeline while nothing fails
Running(c) ==
    \/ Recv(c)
    \/ Resolve(c)
    \/ Skip(c)
    \/ StartRange(c)
    \/ Drain(c)
    \/ FinishRange(c)
    \/ \E j \in 1..MaxP + 1 :
          \/ TaskFetch(c, j)
          \/ TaskStore(c, j)

NextTwoChains == \E c \in Chains : Running(c)

SpecTwoChains == InitTwoChains /\ [][NextTwoChains]_vars

----------------------------------------------------------------------------
(* storage.rs: store_events called with arbitrary events *)

Other(c) == IF c = Consensus THEN Domain(0) ELSE Consensus

\* message ids (channel, nonce): those of the events stored in the table, and
\* those of the events the properties apply to a table
StoredIds == {<<0, 1>>}
MessageIds == {<<0, 1>>, <<0, 2>>}
Amounts == {5, 7}
StoreBlocks == {1, 2}

InitiatedOn(c, ids) ==
    {OutgoingTransferInitiated(m, a, Location(c, "A"), Location(Other(c), "B")) :
        m \in ids, a \in Amounts}

AcknowledgedOn(c, ids) ==
    {OutgoingTransferFailed(Other(c), m) : m \in ids} \cup
    {OutgoingTransferSuccessful(Other(c), m) : m \in ids}

ExecutedOn(c, ids) ==
    {IncomingTransferSuccessful(Other(c), m, a) : m \in ids, a \in Amounts}

\* the events extract_xdm_events_for_block can return for a block of chain c
EventsOn(c, ids) == InitiatedOn(c, ids) \cup AcknowledgedOn(c, ids) \cup ExecutedOn(c, ids)

\* db.store_events(chain, block, block_time, vec![event]) for block b of chain c
Apply(tbl, c, b, event) ==
    store_events(tbl, c, HashAndNumber(c, b), BlockTime(c, b), << event >>)

GroupBlockNumber ==
    {"transfer_initiated_block_number", "transfer_executed_on_dst_block_number",
     "transfer_acknowledged_on_src_block_number"}

\* the field groups populated in the table
Groups(tbl) == {<<k, f>> \in (DOMAIN tbl) \X GroupBlockNumber : tbl[k][f] # None}

InitStorage ==
    /\ live = {}
    /\ process_blocks_in_parallel = MaxP
    /\ base = 0
    /\ last_processed = [k \in ProcessKeys |-> NoRow]
    /\ xdm_transfers = EmptyTable
    /\ pc = Idle
    /\ blocks_ext = NoBatch
    /\ last_processed_block_number = Zero
    /\ from = Zero
    /\ to = Zero
    /\ next_block = Zero
    /\ s = NoTasks
    /\ set_call = NoCall
    /\ yielded = NoCall
    /\ completed = NoBlocks
    /\ drained = NoBlocks
    /\ writes = NoBlocks
    /\ err_block = NoCall
    /\ indexed = NoBlocks
    /\ retry_of = NoCall
    /\ NoExtraction
    /\ ServiceRunning

\* storage.rs 189-231: one call of store_events
StoreEvents(c, b, event) ==
    /\ xdm_transfers' = Apply(xdm_transfers, c, b, event)
    /\ Cardinality(Groups(xdm_transfers')) <= MaxGroups
    /\ UNCHANGED <<config, extraction, service, retry_of, last_processed, pc, locals, s, set_call, yielded, ghosts>>

NextStorage ==
    \E c \in Chains, b \in StoreBlocks :
        \E event \in EventsOn(c, StoredIds) : StoreEvents(c, b, event)

SpecStorage == InitStorage /\ [][NextStorage]_vars

----------------------------------------------------------------------------
(* api.rs: transfers stored and read through the API *)

\* 66400000000000000000000
ExampleBalance == << 6, 6, 4 >> \o [i \in 1..20 |-> 0]

BalanceDigits == {0, 5}

\* the amounts events carry: short ones, the example, and the largest Decimal
\* and the largest u128
Balances == {q \in UNION {[1..n -> BalanceDigits] : n \in 1..MaxDigits} : Len(q) = 1 \/ q[1] # 0} \cup {ExampleBalance, DECIMAL_MAX, U128_MAX}

TokenDecimals == {0, 1, 18}

\* the events of the transfer <<0, 1>> from Consensus to Domain(0) that a block of
\* chain c can hold
TransferEventsOn(c) ==
    IF c = Consensus
    THEN {OutgoingTransferInitiated(<<0, 1>>, a, Location(Consensus, "A"), Location(Domain(0), "B")) : a \in Balances} \cup {OutgoingTransferFailed(Domain(0), <<0, 1>>), OutgoingTransferSuccessful(Domain(0), <<0, 1>>)}
    ELSE {[type |-> "IncomingTransferSuccessful", chain_id |-> Consensus, message_id |-> <<0, 1>>, amount |-> a] : a \in Balances}

InitApi ==
    /\ live = {}
    /\ process_blocks_in_parallel = MaxP
    /\ base = 0
    /\ last_processed = [k \in ProcessKeys |-> NoRow]
    /\ xdm_transfers = EmptyTable
    /\ pc = Idle
    /\ blocks_ext = NoBatch
    /\ last_processed_block_number = Zero
    /\ from = Zero
    /\ to = Zero
    /\ next_block = Zero
    /\ s = NoTasks
    /\ set_call = NoCall
    /\ yielded = NoCall
    /\ completed = NoBlocks
    /\ drained = NoBlocks
    /\ writes = NoBlocks
    /\ err_block = NoCall
    /\ indexed = NoBlocks
    /\ retry_of = NoCall
    /\ NoExtraction
    /\ start_chains = << Consensus, Domain(0) >>
    /\ main_pc = AtJoinNext
    /\ main_result = None
    /\ join_set = << >>
    /\ token_decimals \in TokenDecimals
    /\ response = None

\* storage.rs 189-231: store_events upserts an event of block 1 of chain c
StoreTransferEvent(c, event) ==
    /\ xdm_transfers' = Apply(xdm_transfers, c, 1, Bound(event))
    /\ response' = None
    /\ UNCHANGED <<config, extraction, start_chains, main_pc, main_result, join_set, retry_of,
                   last_processed, pc, locals, s, set_call, yielded, ghosts>>

\* api.rs 100-119: GET /v1/xdm/recent, each row converted with decimal_scale
RecentXdmTransfers ==
    /\ response = None
    /\ response' = Some([key \in DOMAIN xdm_transfers |->
                            ApiXdmTransfer(decimal_scale(token_decimals), key, xdm_transfers[key])])
    /\ UNCHANGED <<config, extraction, start_chains, main_pc, main_result, join_set, retry_of,
                   last_processed, xdm_transfers, pc, locals, s, set_call, yielded, ghosts>>

NextApi ==
    \/ \E c \in Chains :
          \E event \in TransferEventsOn(c) : StoreTransferEvent(c, event)
    \/ RecentXdmTransfers

SpecApi == InitApi /\ [][NextApi]_vars

----------------------------------------------------------------------------
(* xdm.rs: extract_xdm_events_for_block called with arbitrary blocks *)

\* the chains a ChainId can name: the two the indexer knows and another domain
ChainIds == Chains \cup {Domain(1)}

TheTransfer == Transfer(5, Location(Consensus, "A"), Location(Domain(0), "B"))

\* the entries a block's events are drawn from: records of the four types that
\* decode, records of the four types that do not, records of other pallets and
\* variants, and an entry that is no record
Entries == {Initiated(Domain(0), <<0, 1>>, 5), Failed(Domain(0), <<0, 1>>), Successful(Domain(0), <<0, 1>>), Incoming(Domain(0), <<0, 1>>, 5)} \cup {Malformed(E) : E \in StaticEvents} \cup Unrelated \cup {Undecodable}

\* events() of a consensus block yields entries that may fail to decode;
\* events_from_segments() of a domain block returns records only
EntriesOf(chain) == IF chain = Consensus THEN Entries ELSE Entries \ {Undecodable}

BlockExts(chain) == {BlockExt(fetched, records, transfers) : fetched \in BOOLEAN, records \in UNION {[1..n -> EntriesOf(chain)] : n \in 0..MaxRecords}, transfers \in {NoTransfers, OneTransfer(Domain(0), <<0, 1>>, TheTransfer), OneTransfer(Domain(0), <<0, 1>>, Unreadable)}}

ExtractArgs == UNION {{[chain |-> chain, block_ext |-> block_ext] : block_ext \in BlockExts(chain)} : chain \in ChainIds}

InitExtract ==
    /\ live = {}
    /\ process_blocks_in_parallel = MaxP
    /\ base = 0
    /\ last_processed = [k \in ProcessKeys |-> NoRow]
    /\ xdm_transfers = EmptyTable
    /\ pc = Idle
    /\ blocks_ext = NoBatch
    /\ last_processed_block_number = Zero
    /\ from = Zero
    /\ to = Zero
    /\ next_block = Zero
    /\ s = NoTasks
    /\ set_call = NoCall
    /\ yielded = NoCall
    /\ completed = NoBlocks
    /\ drained = NoBlocks
    /\ writes = NoBlocks
    /\ err_block = NoCall
    /\ indexed = NoBlocks
    /\ retry_of = NoCall
    /\ extract_in \in {Some(arg) : arg \in ExtractArgs}
    /\ extract_out = None
    /\ ServiceRunning

\* xdm.rs 101: extract_xdm_events_for_block(chain, &block_ext).await
Extract ==
    /\ extract_in # None
    /\ extract_out = None
    /\ extract_out' = Some(extract_xdm_events_for_block(extract_in[1].chain, extract_in[1].block_ext))
    /\ UNCHANGED <<config, service, retry_of, extract_in, last_processed, xdm_transfers, pc, locals, s, set_call, yielded, ghosts>>

NextExtract == Extract

SpecExtract == InitExtract /\ [][NextExtract]_vars

----------------------------------------------------------------------------
(* xdm.rs: index_events_for_block on any block *)

\* the task of block 1 of a chain was started; the block holds any entries
InitIndexBlock ==
    /\ live = {}
    /\ process_blocks_in_parallel = 1
    /\ base = 0
    /\ last_processed = [k \in ProcessKeys |-> NoRow]
    /\ xdm_transfers = EmptyTable
    /\ extract_in \in {Some(arg) : arg \in {a \in ExtractArgs : a.chain \in Chains}}
    /\ extract_out = None
    /\ pc = [c \in Chains |-> IF c = extract_in[1].chain THEN "drain" ELSE "recv"]
    /\ blocks_ext = [c \in Chains |-> IF c = extract_in[1].chain THEN << 1 >> ELSE << >>]
    /\ last_processed_block_number = Zero
    /\ from = [c \in Chains |-> IF c = extract_in[1].chain THEN 1 ELSE 0]
    /\ to = [c \in Chains |-> IF c = extract_in[1].chain THEN 1 ELSE 0]
    /\ next_block = [c \in Chains |-> IF c = extract_in[1].chain THEN 2 ELSE 0]
    /\ s = [c \in Chains |-> IF c = extract_in[1].chain THEN << Task(1) >> ELSE << >>]
    /\ set_call = NoCall
    /\ yielded = NoCall
    /\ completed = NoBlocks
    /\ drained = NoBlocks
    /\ writes = NoBlocks
    /\ err_block = NoCall
    /\ indexed = NoBlocks
    /\ retry_of = NoCall
    /\ ServiceRunning

\* line 100: block_ext_at_number fails
IndexFetchErr(c) ==
    /\ Polling(c)
    /\ s[c][1].st = "fetch"
    /\ extract_out = None
    /\ s' = [s EXCEPT ![c][1].st = "err"]
    /\ UNCHANGED <<config, extraction, service, retry_of, last_processed, xdm_transfers, pc, locals,
                   set_call, yielded, ghosts>>

\* lines 100-102: the block is fetched and extract_xdm_events_for_block returns;
\* an error is returned by `?`, no events is Ok(()), events go on to store_events
IndexExtract(c) ==
    /\ Polling(c)
    /\ s[c][1].st = "fetch"
    /\ extract_in # None
    /\ extract_in[1].chain = c
    /\ extract_out = None
    /\ LET events == extract_xdm_events_for_block(c, extract_in[1].block_ext) IN
       /\ extract_out' = Some(events)
       /\ IF ~events.ok
          THEN /\ s' = [s EXCEPT ![c][1].st = "err"]
               /\ UNCHANGED <<completed, indexed>>
          ELSE IF events.value = << >>
          THEN TaskOk(c, 1)
          ELSE /\ s' = [s EXCEPT ![c][1].st = "store"]
               /\ UNCHANGED <<completed, indexed>>
    /\ UNCHANGED <<config, service, retry_of, extract_in, last_processed, xdm_transfers, pc, locals,
                   set_call, yielded, drained, writes, err_block>>

\* lines 103-109, storage.rs 196-229: the next event of the block is upserted
IndexStore(c) ==
    /\ Polling(c)
    /\ s[c][1].st = "store"
    /\ LET events == extract_out[1].value
           n == s[c][1].i + 1
       IN /\ xdm_transfers' = StoreEvent(xdm_transfers, c, HashAndNumber(c, 1),
                                         BlockTime(c, 1), events[n])
          /\ writes' = [writes EXCEPT ![c] = @ \cup {<<1, n>>}]
          /\ IF n = Len(events)
             THEN /\ s' = [s EXCEPT ![c][1] = [@ EXCEPT !.st = "ok", !.i = n]]
                  /\ completed' = [completed EXCEPT ![c] = @ \cup {1}]
                  /\ indexed' = [indexed EXCEPT ![c] = @ \cup {1}]
             ELSE /\ s' = [s EXCEPT ![c][1].i = n]
                  /\ UNCHANGED <<completed, indexed>>
    /\ UNCHANGED <<config, extraction, service, retry_of, last_processed, pc, locals, set_call,
                   yielded, drained, err_block>>

\* storage.rs 196-229: an upsert fails and store_events returns the error
IndexStoreErr(c) ==
    /\ Polling(c)
    /\ s[c][1].st = "store"
    /\ s' = [s EXCEPT ![c][1].st = "err"]
    /\ UNCHANGED <<config, extraction, service, retry_of, last_processed, xdm_transfers, pc, locals,
                   set_call, yielded, ghosts>>

NextIndexBlock ==
    \E c \in Chains :
        \/ IndexFetchErr(c)
        \/ IndexExtract(c)
        \/ IndexStore(c)
        \/ IndexStoreErr(c)

SpecIndexBlock == InitIndexBlock /\ [][NextIndexBlock]_vars

----------------------------------------------------------------------------
(* main.rs: main, start_tasks and the join set *)

\* a task spawned on the join set: what it runs, the chain it runs for and the
\* start_tasks call (first or second) that spawned it
TaskId(name, chain, k) == <<name, chain, k>>

log_db_pool_info == TaskId("log_db_pool_info", "", 0)
server == TaskId("server", "", 0)

\* main.rs 139-166: the tasks start_tasks spawns
ChainTasks(chain, k) == {TaskId(name, ChainIdToString(chain), k) : name \in {"perform_runtime_updates", "index_xdm", "listen_for_all_blocks"}}

Spawn(set, tasks) == [task \in DOMAIN set \cup tasks |-> IF task \in DOMAIN set THEN set[task] ELSE "running"]

Exited(set) == {task \in DOMAIN set : set[task] \in {"Ok", "Err"}}

\* main returns and the runtime is shut down: the tasks still running are dropped
Abort(set) == [task \in DOMAIN set |-> IF set[task] = "running" THEN "aborted" ELSE set[task]]

\* what a task can return: index_xdm is a loop that only an error leaves
Exits(task) == IF task[1] = "index_xdm" THEN {"Err"} ELSE {"Ok", "Err"}

NoSet == [task \in {} |-> "running"]

\* the block given to extract_xdm_events_for_block next to the service
ServiceArgs == {[chain |-> chain, block_ext |-> ChainBlock(Consensus, 1)] : chain \in ChainIds}

\* main.rs 64-66: the join set holds the pool logger; start_tasks is called next
InitMain ==
    /\ live = {}
    /\ process_blocks_in_parallel = MaxP
    /\ base = 0
    /\ last_processed = [k \in ProcessKeys |-> NoRow]
    /\ xdm_transfers = EmptyTable
    /\ pc = Idle
    /\ blocks_ext = NoBatch
    /\ last_processed_block_number = Zero
    /\ from = Zero
    /\ to = Zero
    /\ next_block = Zero
    /\ s = NoTasks
    /\ set_call = NoCall
    /\ yielded = NoCall
    /\ completed = NoBlocks
    /\ drained = NoBlocks
    /\ writes = NoBlocks
    /\ err_block = NoCall
    /\ indexed = NoBlocks
    /\ retry_of = NoCall
    /\ extract_in \in {Some(arg) : arg \in ServiceArgs}
    /\ extract_out = None
    /\ start_chains \in [1..2 -> ChainIds]
    /\ token_decimals = 18
    /\ response = None
    /\ main_pc = 1
    /\ main_result = None
    /\ join_set = Spawn(NoSet, {log_db_pool_info})

pipelines == <<last_processed, xdm_transfers, pc, locals, s, set_call, yielded, ghosts, retry_of>>

\* main returns result
Return(result, set) ==
    /\ main_result' = Some(result)
    /\ main_pc' = Returned
    /\ join_set' = Abort(set)

\* mutant: the chain is not checked
StartTasksAnyChain(k) ==
    /\ main_pc = k
    /\ k \in DOMAIN start_chains
    /\ \/ Return("Subspace", join_set)
       \/ /\ join_set' = Spawn(join_set, ChainTasks(start_chains[k], k))
          /\ main_pc' = k + 1
          /\ UNCHANGED main_result
    /\ UNCHANGED <<config, extraction, response, start_chains, pipelines>>

\* main.rs 69-86 and 123-168: the k-th call of start_tasks, with `?`
StartTasks(k) ==
    /\ main_pc = k
    /\ k \in DOMAIN start_chains
    /\ IF start_chains[k] \notin {Consensus, Domain(0)}
       THEN Return("Config", join_set)
       ELSE \/ Return("Subspace", join_set)
            \/ /\ join_set' = Spawn(join_set, ChainTasks(start_chains[k], k))
               /\ main_pc' = k + 1
               /\ UNCHANGED main_result
    /\ UNCHANGED <<config, extraction, response, start_chains, pipelines>>

\* main.rs 88-112: the server is bound and spawned, or bind fails
StartServer ==
    /\ main_pc = AtServer
    /\ \/ Return("Io", join_set)
       \/ /\ join_set' = Spawn(join_set, {server})
          /\ main_pc' = AtJoinNext
          /\ UNCHANGED main_result
    /\ UNCHANGED <<config, extraction, response, start_chains, pipelines>>

\* a task of the join set returns
TaskExit(task, result) ==
    /\ main_pc # Returned
    /\ task \in DOMAIN join_set
    /\ join_set[task] = "running"
    /\ result \in Exits(task)
    /\ Cardinality(Exited(join_set)) < MaxExits
    /\ join_set' = [join_set EXCEPT ![task] = result]
    /\ UNCHANGED <<config, extraction, response, start_chains, main_pc, main_result, pipelines>>

\* mutant: main goes on waiting when the task returned Ok
JoinNextWhileOk(task) ==
    /\ main_pc = AtJoinNext
    /\ task \in Exited(join_set)
    /\ IF join_set[task] = "Ok"
       THEN /\ join_set' = [join_set EXCEPT ![task] = "joined"]
            /\ UNCHANGED <<main_pc, main_result>>
       ELSE Return(join_set[task], [join_set EXCEPT ![task] = "joined"])
    /\ UNCHANGED <<config, extraction, response, start_chains, pipelines>>

\* main.rs 114-120: join_next yields the result of a task that exited; main
\* returns the error, or Ok
JoinNext(task) ==
    /\ main_pc = AtJoinNext
    /\ task \in Exited(join_set)
    /\ Return(join_set[task], [join_set EXCEPT ![task] = "joined"])
    /\ UNCHANGED <<config, extraction, response, start_chains, pipelines>>

NextMain ==
    \/ \E k \in 1..2 : StartTasks(k)
    \/ StartServer
    \/ \E task \in DOMAIN join_set : \E result \in {"Ok", "Err"} : TaskExit(task, result)
    \/ \E task \in DOMAIN join_set : JoinNext(task)
    \/ Extract

SpecMain == InitMain /\ [][NextMain]_vars

----------------------------------------------------------------------------
(* Properties *)

Persisted(c) == last_processed[Key(c)]

\* C1 (as claimed): no step lowers the persisted checkpoint of a process.
C1_CheckpointMonotonic ==
    [][\A k \in ProcessKeys : last_processed'[k] >= last_processed[k]]_vars

\* C1 (amended): every value index_xdm stores while it processes the range
\* [from, to] is at least from and at least every block the range has yielded so
\* far; the checkpoint can go down only when the range starts at or below it.
C1_WritesWithinRange ==
    \A c \in Chains :
        set_call[c] # NoBlock =>
            /\ set_call[c] >= from[c]
            /\ set_call[c] <= to[c]
            /\ \A d \in drained[c] : set_call[c] >= d

\* C1 witness: a checkpoint block was persisted in a range that started below the
\* checkpoint the range was resolved against, lowering it.
C1_Witness ==
    \E c \in Chains :
        /\ pc[c] = "drain"
        /\ set_call[c] = CHECKPOINT_PROCESSED_BLOCK
        /\ Persisted(c) = CHECKPOINT_PROCESSED_BLOCK
        /\ CHECKPOINT_PROCESSED_BLOCK + 1 \in indexed[c]
        /\ from[c] < CHECKPOINT_PROCESSED_BLOCK

\* C2: when checkpoint n is persisted in the range [from, to], the task of every
\* block of from..n has returned Ok.
C2_CheckpointBehindCompleted ==
    \A c \in Chains :
        set_call[c] # NoBlock => \A b \in from[c]..set_call[c] : b \in completed[c]

\* C2 witness: a checkpoint block is persisted while a later task of the range is
\* still in flight.
C2_Witness ==
    \E c \in Chains :
        /\ pc[c] = "drain"
        /\ set_call[c] # NoBlock
        /\ set_call[c] > from[c]
        /\ \E j \in DOMAIN s[c] : ~Finished(s[c][j])

\* C3: a batch of exactly one block b resolves to from = C + 1, to = b, where C is
\* the checkpoint read for the batch.
C3_SingleBlockRange ==
    \A c \in Chains :
        (pc[c] = "resolved" /\ Len(blocks_ext[c]) = 1) =>
            /\ from[c] = last_processed_block_number[c] + 1
            /\ to[c] = blocks_ext[c][1]

\* C3 witness: checkpoint 100 and the batch {101} resolve to [101, 101].
C3_Witness ==
    \E c \in Chains :
        /\ pc[c] = "resolved"
        /\ blocks_ext[c] = << CHECKPOINT_PROCESSED_BLOCK + 1 >>
        /\ last_processed_block_number[c] = CHECKPOINT_PROCESSED_BLOCK
        /\ Persisted(c) = CHECKPOINT_PROCESSED_BLOCK
        /\ from[c] = CHECKPOINT_PROCESSED_BLOCK + 1
        /\ to[c] = CHECKPOINT_PROCESSED_BLOCK + 1

BatchSet(c) == {blocks_ext[c][i] : i \in DOMAIN blocks_ext[c]}

\* C4: a batch B of two or more blocks resolves to from = min(C + 1, min(B)),
\* to = max(B).
C4_MultiBlockRange ==
    \A c \in Chains :
        (pc[c] = "resolved" /\ Len(blocks_ext[c]) >= 2) =>
            /\ from[c] \in BatchSet(c) \cup {last_processed_block_number[c] + 1}
            /\ from[c] <= last_processed_block_number[c] + 1
            /\ \A b \in BatchSet(c) : from[c] <= b /\ b <= to[c]
            /\ to[c] \in BatchSet(c)

\* C4 witness: a batch whose lowest block is above C + 1 resolves to a range that
\* starts at C + 1 (C = 98, {100, 101} gives [99, 101]).
C4_Witness ==
    \E c \in Chains :
        /\ pc[c] = "resolved"
        /\ Len(blocks_ext[c]) >= 2
        /\ \A b \in BatchSet(c) : b > last_processed_block_number[c] + 1
        /\ Persisted(c) = last_processed_block_number[c]
        /\ from[c] = last_processed_block_number[c] + 1
        /\ to[c] > from[c] + 1

\* C5: every block up to the persisted checkpoint has been indexed (its task
\* returned Ok) at least once.
C5_Gapless ==
    \A c \in Chains :
        Persisted(c) # NoRow => \A b \in 1..Persisted(c) : b \in indexed[c]

\* C5 witness: a range of three or more blocks above an earlier checkpoint was
\* finished (its batch of at most MaxBatch blocks left blocks out, which the range
\* filled in), and the checkpoint is at its end.
C5_Witness ==
    \E c \in Chains :
        /\ pc[c] = "recv"
        /\ to[c] >= from[c] + MaxBatch
        /\ from[c] > 1
        /\ Persisted(c) = to[c]

Stepped(c) ==
    <<pc[c], s[c], from[c], to[c], blocks_ext[c], drained[c]>>' #
    <<pc[c], s[c], from[c], to[c], blocks_ext[c], drained[c]>>

\* C6: a batch that resolves to from > to is skipped: no task is started, nothing
\* is written to either table, no error is returned and the loop waits for the
\* next batch.
C6_EmptyRangeIsNoOp ==
    [][\A c \in Chains :
          (pc[c] = "resolved" /\ from[c] > to[c] /\ Stepped(c)) =>
              /\ pc'[c] = "recv"
              /\ s'[c] = << >>
              /\ set_call'[c] = NoBlock
              /\ last_processed' = last_processed
              /\ xdm_transfers' = xdm_transfers
              /\ writes' = writes
              /\ indexed' = indexed]_vars

\* C6 witness: checkpoint 100 and the batch {99} resolve to an empty range.
C6_Witness ==
    \E c \in Chains :
        /\ pc[c] = "resolved"
        /\ blocks_ext[c] = << CHECKPOINT_PROCESSED_BLOCK - 1 >>
        /\ Persisted(c) = CHECKPOINT_PROCESSED_BLOCK
        /\ last_processed_block_number[c] = CHECKPOINT_PROCESSED_BLOCK
        /\ from[c] > to[c]

\* C7: when a range has been processed the persisted checkpoint is to, aligned to
\* the checkpoint interval or not, before the next batch is received.
C7_CheckpointAtEndOfRange ==
    \A c \in Chains :
        (pc[c] = "recv" /\ to[c] # 0) =>
            /\ Persisted(c) = to[c]
            /\ set_call[c] = to[c]
            /\ \A b \in from[c]..to[c] : b \in drained[c]

\* C7 witness: a range ending at a block that is no multiple of the interval was
\* finished.
C7_Witness ==
    \E c \in Chains :
        /\ pc[c] = "recv"
        /\ to[c] # 0
        /\ ~is_multiple_of(to[c], CHECKPOINT_PROCESSED_BLOCK)
        /\ Persisted(c) = to[c]

\* C8: in the step that yields a block, the checkpoint is set to the block when it
\* is a multiple of 100 and no checkpoint call is made otherwise.
C8_IntervalCheckpoint ==
    \A c \in Chains :
        (pc[c] = "drain" /\ yielded[c] # NoBlock) =>
            IF yielded[c] % 100 = 0
            THEN set_call[c] = yielded[c] /\ Persisted(c) = yielded[c]
            ELSE set_call[c] = NoBlock

\* C8 witness: block 100 was yielded and persisted while the range goes on.
C8_Witness ==
    \E c \in Chains :
        /\ pc[c] = "drain"
        /\ yielded[c] = 100
        /\ Persisted(c) = 100
        /\ s[c] # << >>

\* C9: when try_next yields the error of a block task, index_xdm returns it: no
\* further block is yielded, no checkpoint is written (not `to` either), and
\* after that the pipeline takes no step.
C9_FailFast ==
    [][\A c \in Chains :
          /\ (pc[c] = "drain" /\ s[c] # << >> /\ s[c][1].st = "err" /\ Stepped(c)) =>
                /\ pc'[c] = "failed"
                /\ err_block'[c] = s[c][1].block
                /\ drained'[c] = drained[c]
                /\ set_call'[c] = NoBlock
                /\ last_processed' = last_processed
          /\ (pc[c] = "failed" /\ pc'[c] = "failed") =>
                /\ last_processed' = last_processed
                /\ xdm_transfers' = xdm_transfers
                /\ drained'[c] = drained[c]]_vars

\* C9 witness: index_xdm returned the error of a block while a later block of the
\* range had completed and the end of the range was not persisted.
C9_Witness ==
    \E c \in Chains :
        /\ pc[c] = "failed"
        /\ err_block[c] # NoBlock
        /\ err_block[c] + 1 \in completed[c]
        /\ Persisted(c) # to[c]

\* C10 (as claimed): when the task of block k fails, no upsert of a block above k
\* of the range has been committed.
C10_NoWriteAboveFailedBlock ==
    \A c \in Chains :
        (pc[c] = "failed" /\ err_block[c] # NoBlock) =>
            \A w \in writes[c] : w[1] <= err_block[c]

\* C10 (amended): when the task of block k fails, no upsert of a block numbered
\* k + P or above has been committed (P = process_blocks_in_parallel).
C10_NoWriteBeyondWindow ==
    \A c \in Chains :
        (pc[c] = "failed" /\ err_block[c] # NoBlock) =>
            \A w \in writes[c] : w[1] < err_block[c] + process_blocks_in_parallel

\* C10 witness: block k failed and an upsert of block k + 1 is committed.
C10_Witness ==
    \E c \in Chains :
        /\ pc[c] = "failed"
        /\ err_block[c] # NoBlock
        /\ \E w \in writes[c] : w[1] = err_block[c] + 1
        /\ to[c] >= err_block[c] + process_blocks_in_parallel

QueueBlocks(c) == {s[c][j].block : j \in DOMAIN s[c]}

InFlight(c) == {j \in DOMAIN s[c] : ~Finished(s[c][j])}

\* C11: the block tasks started and not finished are at most
\* process_blocks_in_parallel, and the tasks were admitted in increasing block
\* order: the queue holds consecutive blocks ending at the last one the iterator
\* yielded.
C11_BoundedParallelism ==
    \A c \in Chains :
        /\ Cardinality(InFlight(c)) <= process_blocks_in_parallel
        /\ Len(s[c]) <= process_blocks_in_parallel
        /\ \A j \in DOMAIN s[c] : s[c][j].block = next_block[c] - Len(s[c]) + j - 1
        /\ \A j \in DOMAIN s[c] : from[c] <= s[c][j].block /\ s[c][j].block <= to[c]

\* C11 witness: the queue is full of running tasks and blocks of the range wait
\* to be admitted.
C11_Witness ==
    \E c \in Chains :
        /\ pc[c] = "drain"
        /\ process_blocks_in_parallel = MaxP
        /\ Cardinality(InFlight(c)) = process_blocks_in_parallel
        /\ next_block[c] <= to[c]

\* C12 (as claimed): completions are collected as the tasks finish: when a task
\* of the queue has finished, the next step of the loop yields a completion (or
\* returns its error), whatever lower block is still in flight.
C12_DrainsAsTasksFinish ==
    [][\A c \in Chains :
          (pc[c] = "drain" /\ (\E j \in DOMAIN s[c] : Finished(s[c][j])) /\ Stepped(c)) =>
              (yielded'[c] # NoBlock \/ pc'[c] = "failed")]_vars

\* C12 (amended): completions are collected in block order: the blocks yielded
\* are a prefix of the range, every block in the queue is above every block
\* yielded, and a checkpoint is never stored while a lower block is in the queue.
C12_OrderedCompletion ==
    \A c \in Chains :
        /\ drained[c] = from[c]..(from[c] + Cardinality(drained[c]) - 1)
        /\ \A b \in QueueBlocks(c) : \A d \in drained[c] : b > d
        /\ set_call[c] # NoBlock => \A b \in QueueBlocks(c) : b > set_call[c]

\* C12 witness: checkpoint block 100 has finished and waits in the queue behind a
\* lower block that is still in flight.
C12_Witness ==
    \E c \in Chains :
        /\ pc[c] = "drain"
        /\ Len(s[c]) >= 2
        /\ ~Finished(s[c][1])
        /\ s[c][2].st = "ok"
        /\ is_multiple_of(s[c][2].block, CHECKPOINT_PROCESSED_BLOCK)
        /\ Persisted(c) < s[c][2].block

\* C13: while a range is processed without failure the blocks admitted so far are
\* from..next_block - 1, each either once in the queue or yielded, none outside
\* from..to; when the loop moves on, every block of from..to has completed and
\* was yielded.
C13_OneTaskPerBlock ==
    \A c \in Chains :
        /\ pc[c] = "drain" =>
              /\ Cardinality(QueueBlocks(c)) = Len(s[c])
              /\ QueueBlocks(c) \cap drained[c] = {}
              /\ QueueBlocks(c) \cup drained[c] = from[c]..(next_block[c] - 1)
              /\ next_block[c] <= to[c] + 1
              /\ completed[c] \subseteq from[c]..to[c]
              /\ \A w \in writes[c] : w[1] \in from[c]..to[c]
        /\ (pc[c] = "recv" /\ to[c] # 0) =>
              /\ s[c] = << >>
              /\ drained[c] = from[c]..to[c]
              /\ completed[c] = from[c]..to[c]

\* C13 witness: a range with more blocks than process_blocks_in_parallel was
\* processed to its end.
C13_Witness ==
    \E c \in Chains :
        /\ pc[c] = "recv"
        /\ to[c] # 0
        /\ to[c] - from[c] + 1 > process_blocks_in_parallel
        /\ completed[c] = from[c]..to[c]
        /\ writes[c] # {}

\* C14: a batch is taken from the stream only when no block task is in the
\* queue and, if a range was processed before, every block of it has completed
\* and its end is the persisted checkpoint; tasks exist only while the one range
\* is drained.
C14_Backpressure ==
    [][\A c \in Chains :
          /\ (pc[c] = "recv" /\ pc'[c] = "resolve") =>
                /\ s[c] = << >>
                /\ to[c] # 0 =>
                      /\ \A b \in from[c]..to[c] : b \in completed[c] /\ b \in drained[c]
                      /\ Persisted(c) = to[c]
          /\ s'[c] # << >> => pc'[c] = "drain"]_vars

\* C14 witness: a batch was taken after a range of this run was committed.
C14_Witness ==
    \E c \in Chains :
        /\ pc[c] = "resolve"
        /\ s[c] = << >>
        /\ Persisted(c) # NoRow
        /\ Persisted(c) > base
        /\ Persisted(c) \in indexed[c]
        /\ Persisted(c) \in BatchSet(c)

----------------------------------------------------------------------------
(* Properties of store_events *)

\* the calls of store_events with one event: the chain of the pipeline, the
\* block and the event
Calls(ids) == UNION {{<<c, b, event>> : b \in StoreBlocks, event \in EventsOn(c, ids)} : c \in Chains}

Do(tbl, call) == Apply(tbl, call[1], call[2], call[3])

\* C15: idempotence. For every stored state and every Initiated, Acknowledged
\* (failed or successful) or Executed event with its block reference, applying
\* the event through store_events twice leaves the same transfer records as
\* applying it once.
C15_Idempotent ==
    \A call \in Calls(MessageIds) :
        Do(Do(xdm_transfers, call), call) = Do(xdm_transfers, call)

\* a table with records, to which an event it already holds is applied again
C15_Witness ==
    /\ Cardinality(Groups(xdm_transfers)) >= 2
    /\ \E call \in Calls(StoredIds) :
          /\ call[3].type = "IncomingTransferSuccessful"
          /\ Do(xdm_transfers, call) = xdm_transfers

\* one Initiated, one Executed and one Acknowledged event of the transfer
\* (src, Other(src), m): the calls of store_events that deliver them, the first
\* and the third from the pipeline of src, the second from the pipeline of the
\* destination chain
Trios(src, ids) == {<<<<src, b, i>>, <<Other(src), b, x>>, <<src, b, a>>>> : b \in StoreBlocks, i \in InitiatedOn(src, ids), x \in ExecutedOn(Other(src), ids), a \in AcknowledgedOn(src, ids)}

SameMessage(trio) == trio[1][3].message_id = trio[2][3].message_id /\ trio[2][3].message_id = trio[3][3].message_id

\* the orders in which three calls can reach the database
Orders == {p \in [1..3 -> 1..3] : \A i, j \in 1..3 : p[i] = p[j] => i = j}

Pos(p, i) == CHOOSE j \in 1..3 : p[j] = i

\* the table after the calls of trio, applied to tbl in the order p
Final(tbl, trio, p) == Do(Do(Do(tbl, trio[p[1]]), trio[p[2]]), trio[p[3]])

\* the row the three upserts leave: each column holds what the last statement
\* that sets it has bound
MergedRow(trio, p) ==
    LET i == trio[1]
        x == trio[2]
        a == trio[3]
    IN [sender |-> Some(i[3].transfer.sender.account_id),
        receiver |-> Some(i[3].transfer.receiver.account_id),
        amount |-> Some(IF Pos(p, 1) > Pos(p, 2) THEN i[3].transfer.amount ELSE x[3].amount),
        transfer_initiated_block_number |-> Some(i[2]),
        transfer_initiated_block_hash |-> Some(to_hex(BlockHash(i[1], i[2]))),
        transfer_initiated_on_src_at |-> Some(BlockTime(i[1], i[2])),
        transfer_executed_on_dst_block_number |-> Some(x[2]),
        transfer_executed_on_dst_block_hash |-> Some(to_hex(BlockHash(x[1], x[2]))),
        transfer_executed_on_dst_at |-> Some(BlockTime(x[1], x[2])),
        transfer_acknowledged_on_src_block_number |-> Some(a[2]),
        transfer_acknowledged_on_src_block_hash |-> Some(to_hex(BlockHash(a[1], a[2]))),
        transfer_acknowledged_on_src_at |-> Some(BlockTime(a[1], a[2])),
        transfer_successful |-> Some(IF Pos(p, 2) > Pos(p, 3) THEN TRUE
                                     ELSE a[3].type = "OutgoingTransferSuccessful")]

EventKey(src_chain, event) ==
    CASE event.type = "OutgoingTransferInitiated" ->
            TransferKey(event.transfer.sender.chain_id, event.transfer.receiver.chain_id, event.message_id)
      [] event.type = "IncomingTransferSuccessful" ->
            TransferKey(event.chain_id, src_chain, event.message_id)
      [] OTHER -> TransferKey(src_chain, event.chain_id, event.message_id)

InitiatedGroup == {"sender", "receiver", "amount", "transfer_initiated_block_number", "transfer_initiated_block_hash", "transfer_initiated_on_src_at"}
AcknowledgedGroup == {"transfer_acknowledged_on_src_block_number", "transfer_acknowledged_on_src_block_hash", "transfer_acknowledged_on_src_at", "transfer_successful"}
ExecutedGroup == {"amount", "transfer_executed_on_dst_block_number", "transfer_executed_on_dst_block_hash", "transfer_executed_on_dst_at"}

\* the field group of the event type
Owned(event) ==
    CASE event.type = "OutgoingTransferInitiated" -> InitiatedGroup
      [] event.type = "IncomingTransferSuccessful" -> ExecutedGroup
      [] OTHER -> AcknowledgedGroup

\* C17: field-group isolation. Applying an event to an existing record changes
\* only the field group owned by that event type (Initiated: sender, receiver,
\* amount, initiated block; Acknowledged: acknowledged block and success flag;
\* Executed: amount and executed block) and leaves every other field of the
\* record, and every other record, unchanged.
C17_FieldGroupIsolation ==
    \A call \in Calls(StoredIds) :
        LET key == EventKey(call[1], call[3])
            after == Do(xdm_transfers, call)
        IN key \in DOMAIN xdm_transfers =>
              /\ \A f \in DOMAIN NullRow \ Owned(call[3]) : after[key][f] = xdm_transfers[key][f]
              /\ \A k \in DOMAIN xdm_transfers \ {key} : after[k] = xdm_transfers[k]

\* C18: end to end. After an Initiated event from the consensus chain and an
\* Executed event from domain 0 for the same message id are both applied (and no
\* Acknowledged event), the record for (Consensus, Domain(0), channel, nonce) has
\* sender, receiver, amount and initiated block populated, executed block
\* populated, and the acknowledged fields (acknowledged block reference and
\* success flag) still empty.
C18_EndToEnd ==
    \A m \in StoredIds :
        LET key == TransferKey(Consensus, Domain(0), m) IN
        (/\ key \in DOMAIN xdm_transfers
         /\ xdm_transfers[key].transfer_initiated_block_number # None
         /\ xdm_transfers[key].transfer_executed_on_dst_block_number # None
         /\ xdm_transfers[key].transfer_acknowledged_on_src_block_number = None)
            => /\ \A f \in InitiatedGroup \cup ExecutedGroup : xdm_transfers[key][f] # None
               /\ \A f \in AcknowledgedGroup : xdm_transfers[key][f] = None

\* the calls that deliver the events of the transfer (src, Other(src), m): the
\* Initiated and the outcome events from the pipeline of src, the Executed event
\* from the pipeline of the destination chain
Forward(src, m) == {<<src, b, event>> : b \in StoreBlocks, event \in InitiatedOn(src, {m}) \cup AcknowledgedOn(src, {m})} \cup {<<Other(src), b, event>> : b \in StoreBlocks, event \in ExecutedOn(Other(src), {m})}

\* C19: key correlation. For a transfer from chain S to chain D with message id
\* (channel, nonce), the Initiated event (sender chain S, receiver chain D), the
\* Acknowledged event observed by S's pipeline with event chain D, and the
\* Executed event observed by D's pipeline with event chain S all address the
\* one record key (S, D, channel, nonce): each writes the block reference of its
\* group there and leaves every other record as it was. Events of the reverse
\* direction or of another message id never address it.
C19_KeyCorrelation ==
    \A src \in Chains, m \in MessageIds :
        LET key == TransferKey(src, Other(src), m) IN
        /\ \A call \in Forward(src, m) :
              LET after == Do(xdm_transfers, call) IN
              /\ DOMAIN after = DOMAIN xdm_transfers \cup {key}
              /\ \A k \in DOMAIN xdm_transfers \ {key} : after[k] = xdm_transfers[k]
              /\ \E f \in GroupBlockNumber \cap Owned(call[3]) : after[key][f] = Some(call[2])
        /\ \A call \in Calls(MessageIds) \ Forward(src, m) :
              LET after == Do(xdm_transfers, call) IN
              IF key \in DOMAIN xdm_transfers
              THEN key \in DOMAIN after /\ after[key] = xdm_transfers[key]
              ELSE key \notin DOMAIN after

\* the records of the two directions side by side, the one from the consensus
\* chain written by the pipelines of both chains
C19_Witness ==
    \E m \in StoredIds :
        /\ TransferKey(Domain(0), Consensus, m) \in DOMAIN xdm_transfers
        /\ TransferKey(Consensus, Domain(0), m) \in DOMAIN xdm_transfers
        /\ xdm_transfers[TransferKey(Consensus, Domain(0), m)].transfer_initiated_block_number # None
        /\ xdm_transfers[TransferKey(Consensus, Domain(0), m)].transfer_executed_on_dst_block_number # None

\* C20: the two outgoing-transfer outcome events collapse into one Acknowledged
\* write with a boolean. OutgoingTransferFailed stores success = false and
\* OutgoingTransferSuccessful stores success = true, both under the same key
\* and both writing the acknowledged block fields; the two resulting tables
\* differ in the success flag only.
C20_OutcomeCollapse ==
    \A src \in Chains, m \in MessageIds, b \in StoreBlocks :
        LET key == TransferKey(src, Other(src), m)
            failed == Apply(xdm_transfers, src, b, OutgoingTransferFailed(Other(src), m))
            successful == Apply(xdm_transfers, src, b, OutgoingTransferSuccessful(Other(src), m))
        IN /\ DOMAIN failed = DOMAIN xdm_transfers \cup {key}
           /\ DOMAIN successful = DOMAIN failed
           /\ failed[key].transfer_successful = Some(FALSE)
           /\ successful[key].transfer_successful = Some(TRUE)
           /\ failed[key].transfer_acknowledged_on_src_block_number = Some(b)
           /\ failed[key].transfer_acknowledged_on_src_block_hash = Some(to_hex(BlockHash(src, b)))
           /\ failed[key].transfer_acknowledged_on_src_at = Some(BlockTime(src, b))
           /\ \A f \in DOMAIN NullRow \ {"transfer_successful"} : failed[key][f] = successful[key][f]
           /\ \A k \in DOMAIN failed \ {key} : failed[k] = successful[k]

\* a record acknowledged as failed
C20_Witness ==
    \E k \in DOMAIN xdm_transfers :
        /\ xdm_transfers[k].transfer_acknowledged_on_src_block_number # None
        /\ xdm_transfers[k].transfer_successful = Some(FALSE)

----------------------------------------------------------------------------
(* Properties of the block tasks, the decoding and the service *)

\* the upserts store_events makes for block b of chain c
EventWrites(c, b) == {<<b, n>> : n \in 1..Len(ChainEvents(c, b))}

\* C21: within one block, every event write of that block has been applied to
\* storage before the block's task is reported complete to the main loop; a
\* block is never drained (or counted toward a checkpoint) while one of its event
\* writes is still pending.
C21_WritesBeforeCompletion ==
    \A c \in Chains :
        /\ \A j \in DOMAIN s[c] : s[c][j].st = "ok" => EventWrites(c, s[c][j].block) \subseteq writes[c]
        /\ \A b \in completed[c] \cup drained[c] : EventWrites(c, b) \subseteq writes[c]
        /\ \A b \in drained[c] : \A j \in DOMAIN s[c] : s[c][j].block # b
        /\ (pc[c] = "drain" /\ set_call[c] # NoBlock) => EventWrites(c, set_call[c]) \subseteq writes[c]

\* a block with two events was drained and persisted as the checkpoint
C21_Witness ==
    \E c \in Chains :
        /\ pc[c] = "drain"
        /\ set_call[c] # NoBlock
        /\ set_call[c] \in drained[c]
        /\ Len(ChainEvents(c, set_call[c])) >= 2

\* the call of extract_xdm_events_for_block has returned
Extracted == extract_in # None /\ extract_out # None

\* the entries of the block that reach as_events: on the consensus chain the
\* entries that are no records are dropped first
BlockEvents == IF extract_in[1].chain = Consensus THEN SelectSeq(extract_in[1].block_ext.records, LAMBDA event : event.decoded) ELSE extract_in[1].block_ext.records

Recognized(event) == event.decoded /\ event.pallet = PALLET /\ event.variant \in StaticEvents

\* C22: a decode error on a record of a recognized event type (a Transporter
\* OutgoingTransferInitiated, OutgoingTransferFailed, OutgoingTransferSuccessful
\* or IncomingTransferSuccessful record whose fields fail to decode) is not
\* swallowed: extract_xdm_events_for_block returns an error.
C22_DecodeErrorSurfaces ==
    (Extracted /\ \E i \in DOMAIN BlockEvents : Recognized(BlockEvents[i]) /\ BlockEvents[i].fields = None)
        => ~extract_out[1].ok

\* the block without its entries that are of none of the four event types
WithoutUnknown(block_ext) == [block_ext EXCEPT !.records = SelectSeq(block_ext.records, LAMBDA event : Recognized(event))]

\* C23: event records that match none of the four known event types are
\* filtered out: they produce no event, no record write and no error. The call
\* returns what it returns for the block without them, at most one event for
\* each record of a known type, and Ok with no event (so that the task of the
\* block stores nothing and completes) when the block holds no other record.
C23_UnknownFiltered ==
    Extracted =>
        LET chain == extract_in[1].chain
            block_ext == extract_in[1].block_ext
            out == extract_out[1]
        IN /\ out = extract_xdm_events_for_block(chain, WithoutUnknown(block_ext))
           /\ Len(out.value) <= Len(WithoutUnknown(block_ext).records)
           /\ (chain \in Chains /\ block_ext.fetched /\ WithoutUnknown(block_ext).records = << >>) => out = Ok(<< >>)

\* a block with a record of another pallet next to a transfer event
C23_Witness ==
    /\ Extracted
    /\ extract_out[1].ok
    /\ Len(extract_out[1].value) = 1
    /\ \E i \in DOMAIN extract_in[1].block_ext.records : extract_in[1].block_ext.records[i] \in Unrelated

\* C24: when no checkpoint row exists for a chain's process key (first run), the
\* pipeline treats the checkpoint as 0 and continues without error, so the first
\* single-block batch {b} resolves to the range [1, b].
C24_MissingCheckpointIsZero ==
    [][\A c \in Chains :
          (pc[c] = "resolve" /\ Persisted(c) = NoRow) =>
              /\ pc'[c] # "failed"
              /\ pc'[c] = "resolved" =>
                    /\ last_processed_block_number'[c] = 0
                    /\ Len(blocks_ext[c]) = 1 => (from'[c] = 1 /\ to'[c] = blocks_ext[c][1])]_vars

\* the first batch of a chain never indexed is {2} and resolves to [1, 2]
C24_Witness ==
    \E c \in Chains :
        /\ pc[c] = "resolved"
        /\ Persisted(c) = NoRow
        /\ Len(blocks_ext[c]) = 1
        /\ from[c] = 1
        /\ to[c] = 2

\* C25: every failure of a network or storage operation performed by the
\* pipeline (receiving a batch, reading the checkpoint, fetching a block, an
\* enrichment read, an event upsert, writing the checkpoint) terminates index_xdm
\* with an error; none of them is caught and followed by continued processing.
\* A failed task stays in the queue until its error is yielded.
C25_FailuresTerminate ==
    [][\A c \in Chains :
          /\ (RecvErr(c) \/ DrainErr(c) \/ DrainSetErr(c) \/ FinishSetErr(c)) => pc'[c] = "failed"
          /\ (ResolveReadErr(c) /\ Persisted(c) # NoRow) => pc'[c] = "failed"
          /\ (pc[c] = "drain" /\ \E j \in DOMAIN s[c] : s[c][j].st = "err") =>
                \/ pc'[c] = "failed"
                \/ pc'[c] = "drain" /\ \E j \in DOMAIN s'[c] : s'[c][j].st = "err"]_vars

\* the k-th call of start_tasks has been made and has returned
Called(k) == IF main_pc = Returned THEN \A i \in 1..(k - 1) : ChainTasks(start_chains[i], i) \subseteq DOMAIN join_set ELSE main_pc > k

\* C26: a chain identity other than Consensus and Domain(0) is a fatal
\* configuration error: start_tasks returns a Config error before spawning any
\* task for it (and main returns that error), and extract_xdm_events_for_block
\* returns a Config error without producing events.
C26_UnknownChainIsConfigError ==
    /\ \A k \in DOMAIN start_chains :
          (start_chains[k] \notin Chains /\ Called(k)) =>
              /\ main_pc = Returned
              /\ main_result = Some("Config")
              /\ \A task \in DOMAIN join_set : task[3] < k
    /\ (Extracted /\ extract_in[1].chain \notin Chains) =>
              /\ ~extract_out[1].ok
              /\ extract_out[1].error = "Config"
              /\ extract_out[1].value = << >>

\* start_tasks was called for Consensus and then for Domain(1), and the events of
\* a block of Domain(1) were asked for
C26_Witness ==
    /\ start_chains = << Consensus, Domain(1) >>
    /\ main_result = Some("Config")
    /\ ChainTasks(Consensus, 1) \subseteq DOMAIN join_set
    /\ Extracted
    /\ extract_in[1].chain = Domain(1)

\* C27: pipeline termination is fatal for the whole service. As soon as any task
\* in the join set (either chain's index_xdm, a metadata updater, a block
\* listener, the pool logger or the API server) exits, main stops waiting and
\* returns: the step in which join_next hands main the result of a task is the
\* step in which main returns, whatever the result, and when main has returned
\* no task is running, so the service never keeps running with one chain
\* pipeline terminated.
C27_TaskExitIsFatal ==
    [][/\ (\E task \in DOMAIN join_set : join_set[task] # "joined" /\ join_set'[task] = "joined") =>
              main_pc' = Returned
       /\ (main_pc = AtJoinNext /\ main_pc' # AtJoinNext) => Exited(join_set) # {}
       /\ main_pc' = Returned =>
              /\ main_result' # None
              /\ \A task \in DOMAIN join_set' : join_set'[task] # "running"
       /\ main_pc = Returned => join_set' = join_set]_vars

\* the metadata updater of the consensus chain returned Ok, main has returned and
\* the index_xdm tasks of both chains were dropped
C27_Witness ==
    /\ main_pc = Returned
    /\ main_result = Some("Ok")
    /\ ChainTasks(Consensus, 1) \cup ChainTasks(Domain(0), 2) \subseteq DOMAIN join_set
    /\ join_set[TaskId("perform_runtime_updates", "Consensus", 1)] = "joined"
    /\ join_set[TaskId("index_xdm", "Consensus", 1)] = "aborted"
    /\ join_set[TaskId("index_xdm", "Domain(0)", 2)] = "aborted"

\* the pipeline of chain c takes the step
StepOf(c) == pc'[c] # pc[c] \/ s'[c] # s[c]

\* C28: the consensus pipeline and the domain pipeline are independent with
\* respect to checkpoints. Their process keys, xdm_processor_Consensus and
\* xdm_processor_Domain(0), are distinct, and under any
\* interleaving of the two pipelines a step of one never changes the other's
\* persisted checkpoint, the checkpoint the other has read or the range the other
\* has resolved; a checkpoint changes only to the value its own pipeline sets, and
\* a range is resolved from the pipeline's own batch and its own checkpoint.
C28_IndependentCheckpoints ==
    [][/\ get_processor_key(Consensus) = "xdm_processor_Consensus"
       /\ get_processor_key(Domain(0)) = "xdm_processor_Domain(0)"
       /\ get_processor_key(Consensus) # get_processor_key(Domain(0))
       /\ \A c \in Chains :
             /\ StepOf(Other(c)) =>
                   /\ Persisted(c)' = Persisted(c)
                   /\ last_processed_block_number'[c] = last_processed_block_number[c]
                   /\ from'[c] = from[c]
                   /\ to'[c] = to[c]
             /\ Persisted(c)' # Persisted(c) => (StepOf(c) /\ Persisted(c)' = set_call'[c])
             /\ (pc[c] = "resolve" /\ pc'[c] = "resolved") =>
                   /\ last_processed_block_number'[c] = (IF Persisted(c) = NoRow THEN 0 ELSE Persisted(c))
                   /\ from'[c] = ResolveRange(last_processed_block_number'[c], blocks_ext[c]).from
                   /\ to'[c] = ResolveRange(last_processed_block_number'[c], blocks_ext[c]).to]_vars

\* both pipelines have persisted checkpoints, different ones, and the consensus
\* pipeline has resolved a range while the domain pipeline is in the middle of one
C28_Witness ==
    /\ Persisted(Consensus) # NoRow
    /\ Persisted(Domain(0)) # NoRow
    /\ Persisted(Consensus) # Persisted(Domain(0))
    /\ pc[Consensus] = "resolved"
    /\ pc[Domain(0)] = "drain"
    /\ drained[Domain(0)] # {}

\* the table of a run that indexes the blocks of the window of chain c in
\* increasing order and without a failure, on the database the service started on
CleanRun(c) ==
    IndexedRange(IndexedRange(IndexedRange(EmptyTable, Consensus, 1, base), Domain(0), 1, base),
                 c, base + 1, base + Span)

\* C29: failed ranges are safely retried. When a range that ends at the highest
\* block of the chain has been finished, after whatever failures and restarts
\* from the persisted checkpoint came before it, the transfer records are those of
\* a run over the same blocks without a failure, and the checkpoint is the end of
\* the range.
C29_RetryEqualsCleanRun ==
    \A c \in Chains :
        (pc[c] = "recv" /\ to[c] = base + Span) =>
            /\ xdm_transfers = CleanRun(c)
            /\ Persisted(c) = to[c]

\* C29 witness: a task failed at a block after the first blocks of its range were
\* committed, the service was restarted, and the range that starts again at a
\* committed block with events and contains the failed block was finished.
C29_Witness ==
    \E c \in Chains :
        /\ pc[c] = "recv"
        /\ to[c] = base + Span
        /\ retry_of[c] # NoBlock
        /\ from[c] < retry_of[c]
        /\ retry_of[c] <= to[c]
        /\ ChainEvents(c, from[c]) # << >>
        /\ ChainEvents(c, retry_of[c]) # << >>
        /\ Persisted(c) = to[c]

\* C30: the checkpoint store. get_last_processed_block(p) returns an error when no
\* value was ever set for process p, and otherwise the value of the most recent
\* set_last_processed_block(p, n); a set overwrites the earlier value of p and
\* leaves the checkpoints of the other processes unchanged.
C30_CheckpointStore ==
    [][\A c \in Chains :
          /\ GetCheckpoint(c) =>
                last_processed_block_number'[c] =
                    (IF set_call[c] = NoBlock THEN NoRow ELSE set_call[c])
          /\ \A n \in 0..MaxBlockNumber :
                SetCheckpoint(c, n) =>
                    /\ get_last_processed_block(last_processed', Key(c)) = n
                    /\ \A k \in ProcessKeys \ {Key(c)} :
                          get_last_processed_block(last_processed', k) =
                              get_last_processed_block(last_processed, k)]_vars

\* C30 witness: a get of a process returned a value, a later set of the process
\* overwrote it with another one, and the other process holds a third value.
C30_Witness ==
    \E c \in Chains :
        /\ pc[c] = "resolved"
        /\ last_processed_block_number[c] # NoRow
        /\ set_call[c] # NoBlock
        /\ set_call[c] # last_processed_block_number[c]
        /\ Persisted(c) = set_call[c]
        /\ Persisted(Other(c)) \notin {NoRow, Persisted(c), last_processed_block_number[c]}

\* an OutgoingTransferInitiated record of the block decodes and its entry in
\* Transporter.OutgoingTransfers is missing or cannot be read
EnrichmentFails ==
    \E i \in DOMAIN BlockEvents :
        /\ Recognized(BlockEvents[i])
        /\ BlockEvents[i].variant = "OutgoingTransferInitiated"
        /\ BlockEvents[i].fields # None
        /\ ~read_storage(extract_in[1].block_ext, BlockEvents[i].fields[1].chain_id,
                         BlockEvents[i].fields[1].message_id).ok

\* C31: enrichment failure is a pipeline error with no partial block write. If the
\* storage entry of an Initiated event of a block is missing or its read fails,
\* extract_xdm_events_for_block returns an error, the task of the block fails, and
\* none of the events of the block, its acknowledged and executed events
\* included, is written.
C31_EnrichmentFailureWritesNothing ==
    \A c \in Chains :
        (extract_in # None /\ extract_in[1].chain = c /\ EnrichmentFails) =>
            /\ extract_out # None => (~extract_out[1].ok /\ s[c][1].st = "err")
            /\ s[c][1].st \in {"fetch", "err"}
            /\ xdm_transfers = EmptyTable
            /\ writes[c] = {}
            /\ completed[c] = {}

\* C31 witness: a block with an acknowledged or executed event that decodes and an
\* Initiated event without a readable storage entry; the extraction returned an
\* error and the task failed.
C31_Witness ==
    \E c \in Chains :
        /\ extract_in # None
        /\ extract_in[1].chain = c
        /\ extract_in[1].block_ext.fetched
        /\ EnrichmentFails
        /\ \E i \in DOMAIN BlockEvents :
              /\ Recognized(BlockEvents[i])
              /\ BlockEvents[i].variant # "OutgoingTransferInitiated"
              /\ BlockEvents[i].fields # None
        /\ extract_out # None
        /\ ~extract_out[1].ok
        /\ s[c][1].st = "err"

----------------------------------------------------------------------------
(* Properties of the amounts and of the records read through the API *)

\* the amount an event carries, none for an acknowledgement
AmountOf(event) ==
    IF event.type = "OutgoingTransferInitiated" THEN Some(event.transfer.amount)
    ELSE IF event.type = "IncomingTransferSuccessful" THEN Some(event.amount)
    ELSE None

\* the Decimal is n / 10^decimals: mantissa * 10^decimals = n * 10^scale
IsQuotient(decimal, n, decimals) ==
    StripLeadingZeros(decimal.mantissa \o [i \in 1..decimals |-> 0]) =
        StripLeadingZeros(n \o [i \in 1..decimal.scale |-> 0])

TheKey == TransferKey(Consensus, Domain(0), <<0, 1>>)

\* C32: amounts are stored during ingestion exactly as the integer number of
\* smallest units the event carries, with no scaling and no rounding, also when
\* the record is upserted again; an upsert without an amount leaves it as it is;
\* reading does not change it. Only the conversion of a stored record for the
\* API divides it by 10^token_decimals, exactly; a stored amount of
\* 66400000000000000000000 with 18 decimals is returned as 66400.
C32_AmountsExact ==
    [][/\ \A c \in Chains :
             \A event \in TransferEventsOn(c) :
                StoreTransferEvent(c, event) =>
                    xdm_transfers'[TheKey].amount =
                        (IF AmountOf(event) # None THEN AmountOf(event)
                         ELSE IF TheKey \in DOMAIN xdm_transfers THEN xdm_transfers[TheKey].amount
                         ELSE None)
       /\ RecentXdmTransfers =>
             /\ xdm_transfers' = xdm_transfers
             /\ \A key \in DOMAIN xdm_transfers :
                   LET stored == xdm_transfers[key].amount
                       answer == response'[1][key]
                   IN /\ (stored # None /\ Leq(stored[1], DECIMAL_MAX)) =>
                            /\ answer.ok
                            /\ answer.value.amount # None
                            /\ IsQuotient(answer.value.amount[1], stored[1], token_decimals)
                      /\ (stored = Some(ExampleBalance) /\ token_decimals = 18) =>
                            answer.value.amount = Some([mantissa |-> << 6, 6, 4, 0, 0 >>, scale |-> 0])
                      /\ stored = None => (answer.ok /\ answer.value.amount = None)]_vars

\* C32 witness: the record of a transfer of 66400000000000000000000 smallest
\* units was upserted by the initiated and by the executed event and read with 18
\* decimals; the answer holds 66400.
C32_Witness ==
    /\ token_decimals = 18
    /\ TheKey \in DOMAIN xdm_transfers
    /\ xdm_transfers[TheKey].amount = Some(ExampleBalance)
    /\ xdm_transfers[TheKey].transfer_initiated_block_number # None
    /\ xdm_transfers[TheKey].transfer_executed_on_dst_block_number # None
    /\ response # None
    /\ response[1][TheKey].ok
    /\ response[1][TheKey].value.amount = Some([mantissa |-> << 6, 6, 4, 0, 0 >>, scale |-> 0])

\* the persisted checkpoint of the chain, 0 when there is no row
Checkpoint(c) == IF Persisted(c) = NoRow THEN 0 ELSE Persisted(c)

\* C33 as stated: every block drained in the current range is less than 100 (the
\* checkpoint interval) above the persisted checkpoint.
C33_ReplayBelowInterval ==
    \A c \in Chains :
        \A b \in drained[c] : b - Checkpoint(c) < CHECKPOINT_PROCESSED_BLOCK

\* C33 as amended: every block drained in the current range is at most 100 above
\* the persisted checkpoint, and exactly 100 above only when it is a checkpoint
\* block, the last one yielded, whose checkpoint write did not succeed.
C33_ReplayWithinInterval ==
    \A c \in Chains :
        \A b \in drained[c] :
            /\ b - Checkpoint(c) <= CHECKPOINT_PROCESSED_BLOCK
            /\ b - Checkpoint(c) = CHECKPOINT_PROCESSED_BLOCK =>
                  /\ is_multiple_of(b, CHECKPOINT_PROCESSED_BLOCK)
                  /\ yielded[c] = b
                  /\ pc[c] = "failed"

\* C33 witness: a range longer than the interval has been drained past a checkpoint
\* block, which was persisted while the range went on.
C33_Witness ==
    \E c \in Chains :
        /\ pc[c] = "drain"
        /\ to[c] - from[c] >= CHECKPOINT_PROCESSED_BLOCK
        /\ Cardinality(drained[c]) > CHECKPOINT_PROCESSED_BLOCK
        /\ Persisted(c) = from[c] + CHECKPOINT_PROCESSED_BLOCK - 1

\* the columns of the three block groups of a record: number, hash, timestamp
BlockGroups ==
    {<<"transfer_initiated_block_number", "transfer_initiated_block_hash", "transfer_initiated_on_src_at">>,
     <<"transfer_executed_on_dst_block_number", "transfer_executed_on_dst_block_hash", "transfer_executed_on_dst_at">>,
     <<"transfer_acknowledged_on_src_block_number", "transfer_acknowledged_on_src_block_hash", "transfer_acknowledged_on_src_at">>}

\* the record holds the initiated group and no other
OnlyInitiated(row) ==
    /\ row.transfer_initiated_block_number # None
    /\ row.transfer_executed_on_dst_block_number = None
    /\ row.transfer_acknowledged_on_src_block_number = None

\* C34: in every stored state and for every transfer record, each of the three
\* block groups (initiated, executed, acknowledged) is completely present (number,
\* hash and timestamp) or completely absent, and sender and receiver are present
\* exactly when the initiated group is. The read conversion returns each group as
\* block details exactly when it is present, and it accepts a record with only the
\* initiated group (whose amount a Decimal can hold).
C34_BlockGroupsComplete ==
    \A key \in DOMAIN xdm_transfers :
        LET row == xdm_transfers[key] IN
        /\ \A g \in BlockGroups :
              (row[g[1]] = None /\ row[g[2]] = None /\ row[g[3]] = None) \/
              (row[g[1]] # None /\ row[g[2]] # None /\ row[g[3]] # None)
        /\ row.sender # None <=> row.transfer_initiated_block_number # None
        /\ row.receiver # None <=> row.transfer_initiated_block_number # None
        /\ (response # None /\ (row.amount = None \/ Leq(row.amount[1], DECIMAL_MAX))) =>
              LET answer == response[1][key] IN
              /\ answer.ok
              /\ answer.value.initiated_src_block # None <=> row.transfer_initiated_block_number # None
              /\ answer.value.executed_dst_block # None <=> row.transfer_executed_on_dst_block_number # None
              /\ answer.value.acknowledged_src_block # None <=> row.transfer_acknowledged_on_src_block_number # None
              /\ answer.value.sender = row.sender
              /\ answer.value.receiver = row.receiver
              /\ OnlyInitiated(row) =>
                    /\ answer.value.initiated_src_block =
                          Some([block_number |-> 1, block_hash |-> to_hex(BlockHash(Consensus, 1)),
                                block_time |-> BlockTime(Consensus, 1)])
                    /\ answer.value.amount # None

\* C34 witness: a record with only the initiated group was read through the API
\* and converted.
C34_Witness ==
    /\ TheKey \in DOMAIN xdm_transfers
    /\ OnlyInitiated(xdm_transfers[TheKey])
    /\ xdm_transfers[TheKey].sender # None
    /\ xdm_transfers[TheKey].transfer_successful = None
    /\ response # None
    /\ response[1][TheKey].ok
    /\ response[1][TheKey].value.initiated_src_block # None
    /\ response[1][TheKey].value.executed_dst_block = None
    /\ response[1][TheKey].value.acknowledged_src_block = None

----------------------------------------------------------------------------
(* Properties of a range whose tasks upsert concurrently *)

\* the upserts of the range of chain c: the n-th event of block b
RangeWrites(c) == UNION {{<<b, n>> : n \in 1..Len(ChainEvents(c, b))} : b \in from[c]..to[c]}

WriteEvent(c, w) == ChainEvents(c, w[1])[w[2]]

\* the record the upsert w of chain c inserts when its key is not in the table
Inserted(c, w) == Apply(EmptyTable, c, w[1], WriteEvent(c, w))[EventKey(c, WriteEvent(c, w))]

\* the columns the upsert w binds
Written(c, w) == {f \in DOMAIN NullRow : Inserted(c, w)[f] # None}

\* the upserts of the range that write column f of the record of key
Writers(c, key, f) == {w \in RangeWrites(c) : EventKey(c, WriteEvent(c, w)) = key /\ f \in Written(c, w)}

\* two blocks of the range write column f of the record of key
Contended(c, key, f) == \E v, w \in Writers(c, key, f) : v[1] # w[1]

\* the table after the blocks of the range were indexed one after the other
InOrder(c) == IndexedRange(Before, c, from[c], to[c])

\* the range of chain c was processed to its end
RangeDone(c) == c \in live /\ pc[c] = "recv" /\ drained[c] = from[c]..to[c]

\* C35 as stated: scheduling independence within a range. After a range completes
\* successfully the stored transfer records depend only on the store before the
\* range and on the events of its blocks, not on the order in which the up-to-P
\* in-flight block tasks performed their upserts, including when two blocks of
\* the range carry events of the same type for the same key: the table is the one
\* the blocks leave when they are indexed one after the other.
C35_SchedulingIndependent ==
    \A c \in Chains : RangeDone(c) => xdm_transfers = InOrder(c)

\* C35, amended: after a range completes successfully the table has the records
\* of the in-order run, and every column that at most one block of the range
\* writes has the value of the in-order run, whatever the order of the upserts.
\* When two blocks of the range carry events of the same type for the same key,
\* the columns of that type hold the values of one of these events, the one whose
\* upsert was performed last. With one task in flight the table is that of the
\* in-order run.
C35_IndependentUnlessContended ==
    \A c \in Chains :
        RangeDone(c) =>
            /\ DOMAIN xdm_transfers = DOMAIN InOrder(c)
            /\ \A key \in DOMAIN xdm_transfers : \A f \in DOMAIN NullRow :
                   IF Contended(c, key, f)
                   THEN \E w \in Writers(c, key, f) :
                            \A g \in Written(c, w) : xdm_transfers[key][g] = Inserted(c, w)[g]
                   ELSE xdm_transfers[key][f] = InOrder(c)[key][f]
            /\ process_blocks_in_parallel = 1 => xdm_transfers = InOrder(c)

\* C35 witness: a range of the consensus chain was completed in which the upsert
\* of block 51 ran before the upsert of block 50 for the same key, and the
\* acknowledgement of block 52 is in the record
C35_Witness ==
    /\ RangeDone(Consensus)
    /\ to[Consensus] = base + 3
    /\ LET key == TransferKey(Consensus, Domain(0), <<0, 3>>)
       IN /\ key \in DOMAIN xdm_transfers
          /\ xdm_transfers[key].transfer_initiated_block_number = Some(base + 1)
          /\ xdm_transfers[key].transfer_acknowledged_on_src_block_number = Some(base + 3)

----------------------------------------------------------------------------
(* Progress of the processor *)

\* C36: progress. For every value of process_blocks_in_parallel the command line
\* accepts and every non-empty resolved range whose block tasks all succeed,
\* under fair scheduling the processor eventually drains every task of the
\* range, persists the checkpoint `to` and is back at waiting for the next batch.
C36_Progress ==
    \A c \in Chains :
        (pc[c] = "resolved" /\ from[c] <= to[c])
            ~> (pc[c] = "recv" /\ drained[c] = from[c]..to[c] /\ Persisted(c) = to[c])

====
